---- MODULE Spec2Model ----
(***************************************************************************)
(* Model of the file-combine extension (src/fileProcessor.ts):             *)
(* combineFiles, getAllRelevantIgnoreFiles, collectFiles and processFile,  *)
(* run against a small file system.  Paths, patterns and ignore-file       *)
(* lines are strings, handled character by character as the code does.     *)
(***************************************************************************)
EXTENDS Integers, Sequences, FiniteSets, TLC

(***************************************************************************)
(* Strings                                                                 *)
(***************************************************************************)
StartsWith(s, p) == Len(s) >= Len(p) /\ SubSeq(s, 1, Len(p)) = p

EndsWith(s, p) == Len(s) >= Len(p) /\ SubSeq(s, Len(s) - Len(p) + 1, Len(s)) = p

CharAt(s, i) == SubSeq(s, i, i)

\* Positions of character c in s.
IndexesOf(s, c) == {i \in 1..Len(s) : CharAt(s, i) = c}

SetMax(S) == CHOOSE x \in S : \A y \in S : y <= x

SetMin(S) == CHOOSE x \in S : \A y \in S : x <= y

\* s.split(c)
RECURSIVE Split(_, _)
Split(s, c) ==
    IF IndexesOf(s, c) = {} THEN <<s>>
    ELSE LET i == SetMin(IndexesOf(s, c))
         IN  <<SubSeq(s, 1, i - 1)>> \o Split(SubSeq(s, i + 1, Len(s)), c)

\* parts.join(c)
RECURSIVE Join(_, _)
Join(parts, c) ==
    IF Len(parts) = 0 THEN ""
    ELSE IF Len(parts) = 1 THEN parts[1]
    ELSE parts[1] \o c \o Join(Tail(parts), c)

SeqToSet(q) == {q[i] : i \in 1..Len(q)}

(***************************************************************************)
(* Paths (posix host: path.sep = "/")                                      *)
(***************************************************************************)
\* path.dirname
Dirname(p) ==
    LET last == SetMax(IndexesOf(p, "/"))
    IN  IF last = 1 THEN "/" ELSE SubSeq(p, 1, last - 1)

\* path.basename
Basename(p) == SubSeq(p, SetMax(IndexesOf(p, "/")) + 1, Len(p))

\* vscode.Uri.joinPath(uri, name)
JoinPath(dir, name) ==
    IF name = ".." THEN Dirname(dir)
    ELSE IF dir = "/" THEN "/" \o name
    ELSE dir \o "/" \o name

\* dir is p or a directory on p's ancestor chain (whole segments).
IsAncestorOrSelf(dir, p) ==
    \/ dir = p
    \/ dir = "/"
    \/ StartsWith(p, dir \o "/")

\* path.relative(from, to) for from on the ancestor chain of to, the only
\* way collectFiles calls it.
Relative(from, to) ==
    IF from = to THEN ""
    ELSE IF from = "/" THEN SubSeq(to, 2, Len(to))
    ELSE SubSeq(to, Len(from) + 2, Len(to))

(***************************************************************************)
(* The `ignore` package: ignore().add(patterns) and ig.ignores(path).      *)
(* A matcher is the sequence of its pattern strings.  The pattern shapes   *)
(* covered are those of DEFAULT_EXCLUDE_PATTERNS and of the ignore files   *)
(* of the modelled tree: NAME, NAME/, NAME/** with at most one "*" in      *)
(* NAME, each optionally negated by a leading "!".                         *)
(***************************************************************************)
\* One path segment against a segment glob ("*" matches any run of
\* characters that are not "/").
SegGlob(pat, seg) ==
    IF IndexesOf(pat, "*") = {} THEN pat = seg
    ELSE LET i   == SetMin(IndexesOf(pat, "*"))
             pre == SubSeq(pat, 1, i - 1)
             suf == SubSeq(pat, i + 1, Len(pat))
         IN  /\ Len(seg) >= Len(pre) + Len(suf)
             /\ StartsWith(seg, pre)
             /\ EndsWith(seg, suf)

IsNegative(pattern) == StartsWith(pattern, "!")

PatternBody(pattern) ==
    IF IsNegative(pattern) THEN SubSeq(pattern, 2, Len(pattern)) ELSE pattern

\* rule.regex.test(tested); tested is a relative path, with a trailing "/"
\* when it is a parent directory under test.
RuleMatches(pattern, tested) ==
    LET body  == PatternBody(pattern)
        parts == Split(tested, "/")
        isDir == parts[Len(parts)] = ""
        segs  == IF isDir THEN SubSeq(parts, 1, Len(parts) - 1) ELSE parts
    IN  IF Len(segs) = 0 THEN FALSE
        ELSE IF EndsWith(body, "/**")
             THEN /\ Len(segs) >= 2
                  /\ SegGlob(SubSeq(body, 1, Len(body) - 3), segs[1])
        ELSE IF EndsWith(body, "/")
             THEN /\ isDir
                  /\ SegGlob(SubSeq(body, 1, Len(body) - 1), segs[Len(segs)])
        ELSE SegGlob(body, segs[Len(segs)])

\* Ignore._testOne: the last matching rule decides.
RECURSIVE TestOne(_, _, _)
TestOne(rules, tested, ignored) ==
    IF Len(rules) = 0 THEN ignored
    ELSE TestOne(Tail(rules), tested,
                 IF RuleMatches(rules[1], tested)
                 THEN ~IsNegative(rules[1]) ELSE ignored)

\* The parent directory of a tested path, with its trailing "/"; "" if none.
ParentOf(tested) ==
    LET parts == Split(tested, "/")
        segs  == IF parts[Len(parts)] = ""
                 THEN SubSeq(parts, 1, Len(parts) - 1) ELSE parts
    IN  IF Len(segs) <= 1 THEN ""
        ELSE Join(SubSeq(segs, 1, Len(segs) - 1), "/") \o "/"

\* Ignore._t: a path below an ignored directory is ignored and cannot be
\* re-included; otherwise the path's own rules decide.
RECURSIVE Ignores(_, _)
Ignores(rules, tested) ==
    IF ParentOf(tested) = "" THEN TestOne(rules, tested, FALSE)
    ELSE IF Ignores(rules, ParentOf(tested)) THEN TRUE
    ELSE TestOne(rules, tested, FALSE)

\* Ignore.checkPath: ignores() throws on an empty path and on a path that is
\* not relative (/^\.*\/|^\.+$/).
RECURSIVE SkipDots(_)
SkipDots(s) == IF Len(s) > 0 /\ CharAt(s, 1) = "." THEN SkipDots(SubSeq(s, 2, Len(s))) ELSE s

IgnoresThrows(p) == p = "" \/ SkipDots(p) = "" \/ StartsWith(SkipDots(p), "/")

(***************************************************************************)
(* The file system the extension runs against (vscode.workspace.fs).       *)
(* Directories and ordinary files are fixed; the ignore files may be       *)
(* absent or present with some text, as recorded in the variable disk.     *)
(***************************************************************************)
\* vscode.workspace.workspaceFolders[0].uri.fsPath
WorkspaceRoot == "/ws"

Directories ==
    {"/", "/ws", "/ws/a", "/ws/a/sub", "/ws/t", "/ws/dist", "/ws/dist/out", "/ws2",
     "/ws/l", "/ws/l/locked"}

TextFiles ==
    {"/ws/a/sub/d.txt", "/ws/t/e.txt", "/ws/t/f.txt", "/ws/dist/out/o.txt", "/ws2/z.txt",
     "/ws/l/g.txt", "/ws/l/locked/h.txt"}

\* Symbolic links: their stat type is File | SymbolicLink (a link to a
\* file) or Directory | SymbolicLink (a link to a directory).
FileLinks == {"/ws/l/link"}

DirectoryLinks == {"/ws/l/dlink"}

\* Entries that readDirectory lists and whose stat throws.
VanishingEntries == {"/ws/l/gone"}

\* Directories whose readDirectory throws.
UnlistableDirectories == {"/ws/l/locked"}

\* Files that isText() classifies as binary.
BinaryFiles == {"/ws/y.png", "/ws/b.bin"}

\* Files whose readFile throws.
UnreadableFiles == {"/ws/c.txt"}

\* n copies of the string t.
RECURSIVE Repeat(_, _)
Repeat(t, n) == IF n = 0 THEN "" ELSE t \o Repeat(t, n - 1)

\* buffer.toString() of each text file: an empty file, short files and a
\* file of 400 characters.
FileContent ==
    [u \in TextFiles |->
        IF u = "/ws/t/e.txt" THEN ""
        ELSE IF u = "/ws/t/f.txt" THEN Repeat("0123456789", 40)
        ELSE IF u = "/ws/a/sub/d.txt" THEN "hello"
        ELSE "ab"]

IgnoreFilePaths == {"/.gitignore", "/ws/.gitignore", "/ws/a/sub/.filecombine"}

IgnoreFileNames == <<".gitignore", ".filecombine">>

\* What disk holds for an ignore file: absent, present with a text, or
\* present while its readFile throws.
NoFile == [exists |-> FALSE, text |-> "", readable |-> FALSE]

TextOf(t) == [exists |-> TRUE, text |-> t, readable |-> TRUE]

Unreadable == [exists |-> TRUE, text |-> "", readable |-> FALSE]

\* Every path of the tree that exists under disk d.
Existing(d) ==
    Directories \cup TextFiles \cup BinaryFiles \cup UnreadableFiles
        \cup FileLinks \cup DirectoryLinks
        \cup {f \in IgnoreFilePaths : d[f].exists}

\* (await vscode.workspace.fs.stat(uri)).type; "Throws" when the path is missing.
StatType(p, d) ==
    IF p \in Directories THEN "Directory"
    ELSE IF p \in FileLinks THEN "File|SymbolicLink"
    ELSE IF p \in DirectoryLinks THEN "Directory|SymbolicLink"
    ELSE IF p \in Existing(d) THEN "File"
    ELSE "Throws"

EmptyMap == [x \in {} |-> <<>>]

\* The directory holding each path of the tree.
ParentDirectory ==
    [q \in Directories \cup TextFiles \cup BinaryFiles \cup UnreadableFiles
            \cup FileLinks \cup DirectoryLinks \cup VanishingEntries
            \cup IgnoreFilePaths |-> Dirname(q)] @@ EmptyMap

\* await vscode.workspace.fs.readDirectory(uri), as the set of child paths.
ReadDirectory(p, d) ==
    {q \in Existing(d) \cup VanishingEntries : q # p /\ ParentDirectory[q] = p}

\* vscode.workspace.getWorkspaceFolder(uri)?.uri.fsPath, "" for undefined.
GetWorkspaceFolder(p) ==
    IF IsAncestorOrSelf(WorkspaceRoot, p) THEN WorkspaceRoot ELSE ""

\* vscode.workspace.asRelativePath(uri): the path relative to the workspace
\* folder for a path strictly inside it, the absolute path otherwise
\* (also for the workspace folder itself).
AsRelativePath(p) ==
    IF p # WorkspaceRoot /\ GetWorkspaceFolder(p) # ""
    THEN Relative(WorkspaceRoot, p) ELSE p

DEFAULT_EXCLUDE_PATTERNS ==
    << "package-lock.json", "yarn.lock", "pnpm-lock.yaml", "dist/**", "build/**",
       "node_modules/**", "*.min.js", "*.bundle.js", "tsconfig.tsbuildinfo",
       ".next/**", "*.svg", "*.jpg", "*.png", "*.ico", ".env*", "*.log",
       "coverage/**", ".idea/**", ".vscode/**" >>

\* The relative paths of the tree that ignores() accepts.
RelativePaths ==
    {q \in {AsRelativePath(p) : p \in Directories \cup TextFiles \cup BinaryFiles
                                        \cup UnreadableFiles \cup FileLinks
                                        \cup DirectoryLinks \cup IgnoreFilePaths} :
        ~IgnoresThrows(q)}

\* ignore().add(excludePatterns), line 43: the compiled matcher, as its
\* answers for the relative paths of the tree.
CompileExcluder(excludePatterns) ==
    [p \in RelativePaths |-> Ignores(excludePatterns, p)] @@ EmptyMap

\* shouldExcludeFile(relativePath, globalExcluder)
shouldExcludeFile(relativePath, globalExcluder) == globalExcluder[relativePath]

(***************************************************************************)
(* State.  run[i] holds the locals of invocation i of combineFiles (the    *)
(* command can be invoked again while an earlier invocation is awaiting);  *)
(* ignoreFileCache is the module-level Map shared by all invocations.      *)
(***************************************************************************)
\* currentPanel is the static field CombinedFilesPanel.currentPanel (0 for
\* undefined, the number of a panel otherwise); webviewPanels holds every
\* vscode.WebviewPanel created so far, in the order of creation.
VARIABLES run, ignoreFileCache, disk, currentPanel, webviewPanels

vars == <<run, ignoreFileCache, disk, currentPanel, webviewPanels>>

Invocations == {1, 2}

EmptySummary ==
    [totalFiles |-> 0, processedFiles |-> 0, ignoredFiles |-> <<>>,
     excludedFiles |-> <<>>, binaryFiles |-> <<>>,
     totalSize |-> 0, estimatedTokens |-> 0]

\* An invocation that has not been started.
\* The fallbacks of the config.get calls of lines 125-174.
DefaultConfig ==
    [showProcessingSummary |-> FALSE, llmInstructions |-> "", showIgnoredFiles |-> TRUE,
     showTimings |-> TRUE, showFileStructure |-> TRUE]

IdleRun ==
    [pc |-> "idle", uris |-> <<>>, k |-> 0,
     uniqueStartDirs |-> <<>>, dirIdx |-> 0,
     currentUri |-> "", visitedDirs |-> {}, walks |-> <<>>, nameIdx |-> 0,
     relevantIgnoreFiles |-> <<>>, readOk |-> FALSE, readBuf |-> "", readWhen |-> {},
     allRelevantIgnoreFiles |-> <<>>, compiledIgnores |-> EmptyMap,
     cancelled |-> FALSE, tasks |-> EmptyMap,
     fileUris |-> <<>>, processedFilePaths |-> {},
     summary |-> EmptySummary, processedPaths |-> <<>>, combinedContent |-> <<>>,
     readFailed |-> {}, treeView |-> "", output |-> <<>>,
     config |-> DefaultConfig,
     idx |-> 0, outcome |-> "none"]

\* The invocations that have started; recorded with each disk read of an
\* ignore file (history only, read by no action).
Started == {j \in Invocations : run[j].pc # "idle"}

(***************************************************************************)
(* combineFiles, lines 25-77: start dirs, ignore-file location, compile.   *)
(***************************************************************************)
WhiteSpace == {" ", "\t", "\r", "\n"}

\* p.trim() === ''
IsBlank(p) == \A i \in 1..Len(p) : CharAt(p, i) \in WhiteSpace

\* Mutant of KeepLine: comment lines are kept.
KeepLineWithComments(p) == ~IsBlank(p)

\* Line 309: p.trim() !== '' && !p.startsWith('#')
KeepLine(p) == ~IsBlank(p) /\ ~StartsWith(p, "#")

\* contentBytes.toString().split('\n').filter(...)
ParsePatterns(text) == SelectSeq(Split(text, "\n"), KeepLine)

RECURSIVE FlattenPatterns(_)
FlattenPatterns(entries) ==
    IF Len(entries) = 0 THEN <<>>
    ELSE entries[1].patterns \o FlattenPatterns(Tail(entries))

\* compiledIgnores: one matcher per directory, the patterns of the
\* directory's ignore files added in the order of allRelevantIgnoreFiles.
Compile(entries) ==
    [d \in {Dirname(entries[n].filePath) : n \in 1..Len(entries)} |->
        LET InDir(e) == Dirname(e.filePath) = d
        IN  FlattenPatterns(SelectSeq(entries, InDir))]

\* The root calls of collectFiles made by Promise.all(uris.map(...)): each
\* runs to its first await (the stat of its uri).  A call is named by the
\* index of its root and its path.
RootTasks(uris) == [t \in {<<n, uris[n]>> : n \in 1..Len(uris)} |-> "stat"]

\* Lines 70-89: compile the matchers and start the collection.
BeginCollect(r) ==
    [r EXCEPT !.pc = "collect",
              !.compiledIgnores = Compile(r.allRelevantIgnoreFiles),
              !.tasks = RootTasks(r.uris)]

\* Mutant of LocLoopCondition: the walk is not stopped at the workspace
\* boundary.
LocLoopConditionNoBoundary(currentUri, visitedDirs) ==
    /\ currentUri # ""
    /\ WorkspaceRoot # ""
    /\ currentUri \notin visitedDirs

\* Line 298: the condition of the while loop.
LocLoopCondition(currentUri, visitedDirs) ==
    /\ currentUri # ""
    /\ WorkspaceRoot # ""
    /\ StartsWith(currentUri, WorkspaceRoot)
    /\ currentUri \notin visitedDirs

\* Mutant of LocRun: at the end of the loop body currentUri is not moved to
\* the parent directory.
RECURSIVE LocRunStaysPut(_, _)
LocRunStaysPut(r, cache) ==
    IF r.nameIdx = 0
    THEN IF LocLoopCondition(r.currentUri, r.visitedDirs)
         THEN LocRunStaysPut([r EXCEPT !.visitedDirs = @ \cup {r.currentUri},
                               !.walks[Len(r.walks)] = Append(@, r.currentUri),
                               !.nameIdx = 1], cache)
         ELSE [r EXCEPT !.pc = "locReturn"]
    ELSE IF r.nameIdx <= Len(IgnoreFileNames)
    THEN LET ignoreFileUri == JoinPath(r.currentUri, IgnoreFileNames[r.nameIdx])
         IN  IF ignoreFileUri \in DOMAIN cache
             THEN LocRunStaysPut([r EXCEPT !.relevantIgnoreFiles = Append(@, cache[ignoreFileUri]),
                                   !.nameIdx = @ + 1], cache)
             ELSE [r EXCEPT !.pc = "ignStat"]
    ELSE IF r.currentUri = WorkspaceRoot THEN [r EXCEPT !.pc = "locReturn"]
    ELSE IF Dirname(r.currentUri) = r.currentUri THEN [r EXCEPT !.pc = "locReturn"]
    ELSE LocRunStaysPut([r EXCEPT !.nameIdx = 0], cache)

\* getAllRelevantIgnoreFiles from the head of its while loop (nameIdx = 0),
\* from the for loop over the two file names (nameIdx = 1, 2) or from the
\* end of the loop body (nameIdx = 3), up to its next await (pc "ignStat")
\* or its return (pc "locReturn").  walks keeps, for each call of the run,
\* the directories added to its visitedDirs, in the order of insertion.
RECURSIVE LocRun(_, _)
LocRun(r, cache) ==
    IF r.nameIdx = 0
    THEN IF LocLoopCondition(r.currentUri, r.visitedDirs)
         THEN LocRun([r EXCEPT !.visitedDirs = @ \cup {r.currentUri},
                               !.walks[Len(r.walks)] = Append(@, r.currentUri),
                               !.nameIdx = 1], cache)
         ELSE [r EXCEPT !.pc = "locReturn"]
    ELSE IF r.nameIdx <= Len(IgnoreFileNames)
    THEN LET ignoreFileUri == JoinPath(r.currentUri, IgnoreFileNames[r.nameIdx])
         IN  IF ignoreFileUri \in DOMAIN cache
             THEN LocRun([r EXCEPT !.relevantIgnoreFiles = Append(@, cache[ignoreFileUri]),
                                   !.nameIdx = @ + 1], cache)
             ELSE [r EXCEPT !.pc = "ignStat"]
    ELSE IF r.currentUri = WorkspaceRoot THEN [r EXCEPT !.pc = "locReturn"]
    ELSE IF Dirname(r.currentUri) = r.currentUri THEN [r EXCEPT !.pc = "locReturn"]
    ELSE LocRun([r EXCEPT !.currentUri = Dirname(@), !.nameIdx = 0], cache)

\* Lines 62-67: keep the entries whose filePath was not found before.
RECURSIVE MergeFound(_, _)
MergeFound(all, collected) ==
    IF Len(collected) = 0 THEN all
    ELSE IF \E n \in 1..Len(all) : all[n].filePath = collected[1].filePath
         THEN MergeFound(all, Tail(collected))
         ELSE MergeFound(Append(all, collected[1]), Tail(collected))

\* The call getAllRelevantIgnoreFiles(uniqueStartDirs[n]) up to its first
\* await, the stat of the start directory.
CallLocator(r, n) ==
    [r EXCEPT !.pc = "locStat", !.dirIdx = n, !.currentUri = "",
              !.visitedDirs = {}, !.walks = Append(@, <<>>),
              !.nameIdx = 0, !.relevantIgnoreFiles = <<>>]

\* Mutant of AfterLocate: the collection starts when the call for the first
\* start directory has returned.
AfterLocateStartsEarly(r) ==
    IF r.pc # "locReturn" THEN r
    ELSE BeginCollect([r EXCEPT !.allRelevantIgnoreFiles =
                                    MergeFound(@, r.relevantIgnoreFiles)])

\* Lines 60-68 after a call returned: merge, then the next start directory,
\* or the collection when there is none left.
AfterLocate(r) ==
    IF r.pc # "locReturn" THEN r
    ELSE LET merged == [r EXCEPT !.allRelevantIgnoreFiles =
                                     MergeFound(@, r.relevantIgnoreFiles)]
         IN  IF r.dirIdx < Len(r.uniqueStartDirs)
             THEN CallLocator(merged, r.dirIdx + 1)
             ELSE BeginCollect(merged)

LocContinue(r, cache) == AfterLocate(LocRun(r, cache))

(***************************************************************************)
(* webviewPanel.ts.  A WebviewPanel is a record of its html, of whether it *)
(* is disposed and of whether it is the visible tab of its column.         *)
(***************************************************************************)
\* The characters that encodeURIComponent escapes, among those of the
\* texts of the model.
Reserved == {" ", "\n", "#", "%", "/", ":"}

\* The escape sequence of a character (its UTF-8 byte in hexadecimal).
HexCodes ==
    [c \in Reserved \cup {"A", "a"} |->
        CASE c = " "  -> "%20"
          [] c = "\n" -> "%0A"
          [] c = "#"  -> "%23"
          [] c = "%"  -> "%25"
          [] c = "/"  -> "%2F"
          [] c = ":"  -> "%3A"
          [] c = "A"  -> "%41"
          [] c = "a"  -> "%61"]

\* Every character is encoded on its own: the two halves of a string are
\* encoded and joined.
RECURSIVE encodeURIComponent(_)
encodeURIComponent(s) ==
    IF Len(s) = 0 THEN ""
    ELSE IF Len(s) = 1 THEN (IF s \in Reserved THEN HexCodes[s] ELSE s)
    ELSE encodeURIComponent(SubSeq(s, 1, Len(s) \div 2))
         \o encodeURIComponent(SubSeq(s, Len(s) \div 2 + 1, Len(s)))

\* decodeURIComponent of a string whose escape sequences are complete.
RECURSIVE decodeURIComponent(_)
decodeURIComponent(s) ==
    IF Len(s) = 0 THEN ""
    ELSE IF CharAt(s, 1) = "%" /\ Len(s) >= 3
              /\ \E c \in DOMAIN HexCodes : HexCodes[c] = SubSeq(s, 1, 3)
         THEN (CHOOSE c \in DOMAIN HexCodes : HexCodes[c] = SubSeq(s, 1, 3))
              \o decodeURIComponent(SubSeq(s, 4, Len(s)))
    ELSE CharAt(s, 1) \o decodeURIComponent(SubSeq(s, 2, Len(s)))

\* _getHtmlForWebview(content): the page, as the string it embeds (the
\* nonce and the fixed markup are left out).
getHtmlForWebview(content) == [encodedContent |-> encodeURIComponent(content)]

\* The script of the page: editorPre.textContent.
TextContent(html) == decodeURIComponent(html.encodedContent)

\* vscode.window.createWebviewPanel(...)
createWebviewPanel == [html |-> getHtmlForWebview(""), disposed |-> FALSE, visible |-> TRUE]

\* updateContent(content) of the instance of panel p
updateContent(panels, p, content) ==
    [panels EXCEPT ![p].html = getHtmlForWebview(content)]

\* Mutant of createOrShow: a panel is created on every call.
createOrShowAlwaysCreates(content) ==
    /\ webviewPanels' = updateContent(Append(webviewPanels, createWebviewPanel),
                                      Len(webviewPanels) + 1, content)
    /\ currentPanel' = Len(webviewPanels) + 1

\* CombinedFilesPanel.createOrShow(extensionUri, content)
createOrShow(content) ==
    IF currentPanel # 0
    THEN /\ webviewPanels' =
               updateContent([webviewPanels EXCEPT ![currentPanel].visible = TRUE],
                             currentPanel, content)
         /\ UNCHANGED currentPanel
    ELSE /\ webviewPanels' = updateContent(Append(webviewPanels, createWebviewPanel),
                                           Len(webviewPanels) + 1, content)
         /\ currentPanel' = Len(webviewPanels) + 1

\* dispose() of the instance of panel p; _panel.dispose() does nothing on a
\* panel that is disposed already.
dispose(p) ==
    /\ currentPanel' = 0
    /\ webviewPanels' = [webviewPanels EXCEPT ![p].disposed = TRUE, ![p].visible = FALSE]

\* The text of a document, of which the model keeps the headings, one on
\* each line.
RECURSIVE DocumentText(_)
DocumentText(output) ==
    IF Len(output) = 0 THEN ""
    ELSE output[1].heading \o "\n" \o DocumentText(Tail(output))

\* Run i goes on as r; a run that has put its document together hands it to
\* CombinedFilesPanel.createOrShow (fileProcessor.ts, line 179).
Update(i, r) ==
    /\ run' = [run EXCEPT ![i] = r]
    /\ IF run[i].output = <<>> /\ r.output # <<>>
       THEN createOrShow(DocumentText(r.output))
       ELSE UNCHANGED <<currentPanel, webviewPanels>>

\* The run leaves combineFiles: by one of its returns, or by an exception.
End(r, outcome) == [r EXCEPT !.pc = "done", !.outcome = outcome]

\* combineFiles up to its first await: the empty-selection return, the
\* fresh summary, ignoreFileCache.clear(), the stat of the first uri.
Start(i, uris) ==
    /\ run[i].pc = "idle"
    /\ IF Len(uris) = 0
       THEN /\ Update(i, [run[i] EXCEPT !.pc = "done", !.outcome = "noSelection"])
            /\ UNCHANGED ignoreFileCache
       ELSE /\ Update(i, [run[i] EXCEPT !.pc = "statRoots", !.uris = uris, !.k = 1])
            /\ ignoreFileCache' = EmptyMap
    /\ UNCHANGED disk

\* The command handler: an idle invocation is started on one of the
\* selections.
Invoke(i, selections) ==
    /\ run[i].pc = "idle"
    /\ \E uris \in selections : Start(i, uris)

\* Mutant of AddStartDir: only the first root's start directory is kept.
AddStartDirFirstOnly(uniqueStartDirs, startDir) ==
    IF Len(uniqueStartDirs) > 0 THEN uniqueStartDirs ELSE <<startDir>>

\* Line 53: uniqueStartDirs.add(startDir); a Set iterates in insertion order.
AddStartDir(uniqueStartDirs, startDir) ==
    IF startDir \in SeqToSet(uniqueStartDirs) THEN uniqueStartDirs
    ELSE Append(uniqueStartDirs, startDir)

\* Mutant of RootStatResolves: the failure of the stat is not caught and
\* rejects combineFiles.
RootStatResolvesErrorEscapes(i) ==
    LET r     == run[i]
        uri   == r.uris[r.k]
        type  == StatType(uri, disk)
        start == IF type = "Directory" THEN uri ELSE Dirname(uri)
        dirs  == IF type = "Throws" THEN r.uniqueStartDirs
                 ELSE AddStartDir(r.uniqueStartDirs, start)
        r1    == [r EXCEPT !.uniqueStartDirs = dirs, !.k = @ + 1]
    IN  /\ r.pc = "statRoots"
        /\ Update(i, IF type = "Throws" THEN End(r, "exception")
                     ELSE IF r.k < Len(r.uris) THEN r1
                     ELSE IF Len(dirs) = 0 THEN BeginCollect(r1)
                     ELSE CallLocator(r1, 1))
        /\ UNCHANGED <<ignoreFileCache, disk>>

\* Lines 49-57: the stat of uris[k] resolves or throws; after the last one
\* the locator is called for the first start directory.
RootStatResolves(i) ==
    LET r     == run[i]
        uri   == r.uris[r.k]
        type  == StatType(uri, disk)
        start == IF type = "Directory" THEN uri ELSE Dirname(uri)
        dirs  == IF type = "Throws" THEN r.uniqueStartDirs
                 ELSE AddStartDir(r.uniqueStartDirs, start)
        r1    == [r EXCEPT !.uniqueStartDirs = dirs, !.k = @ + 1]
    IN  /\ r.pc = "statRoots"
        /\ Update(i, IF r.k < Len(r.uris) THEN r1
                     ELSE IF Len(dirs) = 0 THEN BeginCollect(r1)
                     ELSE CallLocator(r1, 1))
        /\ UNCHANGED <<ignoreFileCache, disk>>

\* Lines 291-296: the stat of the start directory resolves or throws.
LocStatResolves(i) ==
    LET r        == run[i]
        startUri == r.uniqueStartDirs[r.dirIdx]
        cur      == IF StatType(startUri, disk) = "Directory"
                    THEN startUri ELSE JoinPath(startUri, "..")
    IN  /\ r.pc = "locStat"
        /\ Update(i, LocContinue([r EXCEPT !.currentUri = cur, !.nameIdx = 0],
                                 ignoreFileCache))
        /\ UNCHANGED <<ignoreFileCache, disk>>

\* Line 307: the stat of the ignore file resolves (readFile is issued) or
\* throws FileNotFound (caught, next file name).
IgnoreStatResolves(i) ==
    LET r             == run[i]
        ignoreFileUri == JoinPath(r.currentUri, IgnoreFileNames[r.nameIdx])
    IN  /\ r.pc = "ignStat"
        /\ Update(i, IF StatType(ignoreFileUri, disk) = "File"
                     THEN [r EXCEPT !.pc = "ignRead"]
                     ELSE LocContinue([r EXCEPT !.nameIdx = @ + 1], ignoreFileCache))
        /\ UNCHANGED <<ignoreFileCache, disk>>

\* Line 308, the I/O of readFile: the bytes are those on disk at this moment,
\* or the read fails; the awaiting function resumes in a later step.
IgnoreReadIO(i) ==
    LET r             == run[i]
        ignoreFileUri == JoinPath(r.currentUri, IgnoreFileNames[r.nameIdx])
    IN  /\ r.pc = "ignRead"
        /\ Update(i, [r EXCEPT !.pc = "ignResume",
                               !.readOk = disk[ignoreFileUri].readable,
                               !.readBuf = disk[ignoreFileUri].text,
                               !.readWhen = Started])
        /\ UNCHANGED <<ignoreFileCache, disk>>

\* Mutant of IgnoreReadResumes: when readFile threw, the call returns what it
\* has found so far.
IgnoreReadResumesFailureEndsWalk(i) ==
    LET r             == run[i]
        ignoreFileUri == JoinPath(r.currentUri, IgnoreFileNames[r.nameIdx])
        entry         == [filePath |-> ignoreFileUri,
                          patterns |-> ParsePatterns(r.readBuf),
                          readWhen |-> r.readWhen]
        cache         == [f \in DOMAIN ignoreFileCache \cup {ignoreFileUri} |->
                             IF f = ignoreFileUri THEN entry ELSE ignoreFileCache[f]]
    IN  /\ r.pc = "ignResume"
        /\ IF r.readOk
           THEN /\ ignoreFileCache' = cache
                /\ Update(i, LocContinue([r EXCEPT !.relevantIgnoreFiles = Append(@, entry),
                                                   !.nameIdx = @ + 1, !.readOk = FALSE,
                                                   !.readBuf = "", !.readWhen = {}], cache))
           ELSE /\ UNCHANGED ignoreFileCache
                /\ Update(i, AfterLocate([r EXCEPT !.pc = "locReturn",
                                                   !.readBuf = "", !.readWhen = {}]))
        /\ UNCHANGED disk

\* Lines 309-312: parse, cache and push the entry, then go on; lines
\* 313-317 when readFile threw: nothing is cached or pushed.
IgnoreReadResumes(i) ==
    LET r             == run[i]
        ignoreFileUri == JoinPath(r.currentUri, IgnoreFileNames[r.nameIdx])
        entry         == [filePath |-> ignoreFileUri,
                          patterns |-> ParsePatterns(r.readBuf),
                          readWhen |-> r.readWhen]
        cache         == [f \in DOMAIN ignoreFileCache \cup {ignoreFileUri} |->
                             IF f = ignoreFileUri THEN entry ELSE ignoreFileCache[f]]
    IN  /\ r.pc = "ignResume"
        /\ IF r.readOk
           THEN /\ ignoreFileCache' = cache
                /\ Update(i, LocContinue([r EXCEPT !.relevantIgnoreFiles = Append(@, entry),
                                                   !.nameIdx = @ + 1, !.readOk = FALSE,
                                                   !.readBuf = "", !.readWhen = {}], cache))
           ELSE /\ UNCHANGED ignoreFileCache
                /\ Update(i, LocContinue([r EXCEPT !.nameIdx = @ + 1,
                                                   !.readBuf = "", !.readWhen = {}],
                                          ignoreFileCache))
        /\ UNCHANGED disk

(***************************************************************************)
(* collectFiles, lines 222-283.  tasks maps each call <<root index, path>> *)
(* to where it is suspended: "stat" (line 234), "readdir" (line 274),      *)
(* "join" (line 275, awaiting its children), "skipped" (returned at line    *)
(* 231, cancellation requested) or "done" (returned later).                *)
(***************************************************************************)
Returned == {"skipped", "done"}

\* config.get('excludePatterns', DEFAULT_EXCLUDE_PATTERNS), compiled.
GlobalExcluder == CompileExcluder(DEFAULT_EXCLUDE_PATTERNS)

\* Mutant of IgnoreWalk: the levels are checked from the workspace root
\* downwards, the shallowest matching level winning.
RECURSIVE IgnoreWalkShallowFirst(_, _, _, _)
IgnoreWalkShallowFirst(compiled, workspaceRootPath, fsPath, currentDir) ==
    IF ~(workspaceRootPath # "" /\ StartsWith(currentDir, workspaceRootPath)) THEN ""
    ELSE LET above == IF currentDir = workspaceRootPath \/ Dirname(currentDir) = currentDir
                      THEN ""
                      ELSE IgnoreWalkShallowFirst(compiled, workspaceRootPath, fsPath,
                                                  Dirname(currentDir))
         IN  IF above # "" THEN above
             ELSE IF /\ currentDir \in DOMAIN compiled
                     /\ Relative(currentDir, fsPath) # ""
                     /\ Ignores(compiled[currentDir], Relative(currentDir, fsPath))
                  THEN currentDir
             ELSE ""

\* Lines 249-266: the upward walk over the compiled matchers; the directory
\* whose matcher ignores fsPath, "" when none does.
RECURSIVE IgnoreWalk(_, _, _, _)
IgnoreWalk(compiled, workspaceRootPath, fsPath, currentDir) ==
    IF ~(workspaceRootPath # "" /\ StartsWith(currentDir, workspaceRootPath)) THEN ""
    ELSE IF /\ currentDir \in DOMAIN compiled
            /\ Relative(currentDir, fsPath) # ""
            /\ Ignores(compiled[currentDir], Relative(currentDir, fsPath))
         THEN currentDir
    ELSE IF currentDir = workspaceRootPath THEN ""
    ELSE IF Dirname(currentDir) = currentDir THEN ""
    ELSE IgnoreWalk(compiled, workspaceRootPath, fsPath, Dirname(currentDir))

Finish(r, t) == [r EXCEPT !.tasks[t] = "done"]

\* Lines 238-240
RecordExcluded(r, relativePath) ==
    IF relativePath \in SeqToSet(r.summary.excludedFiles) THEN r
    ELSE [r EXCEPT !.summary.excludedFiles = Append(@, relativePath)]

\* Mutant of RecordIgnored: the duplicate check compares the reason
\* instead of the path.
RecordIgnoredOncePerReason(r, relativePath, reason) ==
    IF \E n \in 1..Len(r.summary.ignoredFiles) :
           r.summary.ignoredFiles[n].reason = reason
    THEN r
    ELSE [r EXCEPT !.summary.ignoredFiles =
                       Append(@, [path |-> relativePath, reason |-> reason])]

\* Lines 256-258
RecordIgnored(r, relativePath, reason) ==
    IF \E n \in 1..Len(r.summary.ignoredFiles) :
           r.summary.ignoredFiles[n].path = relativePath
    THEN r
    ELSE [r EXCEPT !.summary.ignoredFiles =
                       Append(@, [path |-> relativePath, reason |-> reason])]

\* Mutant of AddFile: no check of processedFilePaths.
AddFileNoDedup(r, fsPath) ==
    [r EXCEPT !.fileUris = Append(@, fsPath),
              !.processedFilePaths = @ \cup {fsPath}]

\* Lines 270-272
AddFile(r, fsPath) ==
    IF fsPath \in r.processedFilePaths THEN r
    ELSE [r EXCEPT !.fileUris = Append(@, fsPath),
                   !.processedFilePaths = @ \cup {fsPath}]

\* Mutant of Visit: the directory-local matchers are consulted before the
\* global excluder.
VisitIgnoreFirst(r, t, type) ==
    LET fsPath       == t[2]
        relativePath == AsRelativePath(fsPath)
        currentDir   == IF type = "Directory" THEN fsPath ELSE Dirname(fsPath)
        reason       == IgnoreWalk(r.compiledIgnores, GetWorkspaceFolder(fsPath),
                                   fsPath, currentDir)
    IN  IF type = "Throws" THEN Finish(r, t)
        ELSE IF IgnoresThrows(relativePath) THEN Finish(r, t)
        ELSE IF reason # ""
             THEN Finish(RecordIgnored(r, relativePath, reason), t)
        ELSE IF shouldExcludeFile(relativePath, GlobalExcluder)
             THEN Finish(RecordExcluded(r, relativePath), t)
        ELSE IF type = "File" THEN Finish(AddFile(r, fsPath), t)
        ELSE IF type = "Directory" THEN [r EXCEPT !.tasks[t] = "readdir"]
        ELSE Finish(r, t)

\* Mutant of Visit: an excluded or ignored directory is recorded and then
\* read like any other directory (the returns of lines 241 and 259 are
\* missing for directories).
VisitReadsLeftOutDirectory(r, t, type) ==
    LET fsPath       == t[2]
        relativePath == AsRelativePath(fsPath)
        currentDir   == IF type = "Directory" THEN fsPath ELSE Dirname(fsPath)
        reason       == IgnoreWalk(r.compiledIgnores, GetWorkspaceFolder(fsPath),
                                   fsPath, currentDir)
        Leave(q)     == IF type = "Directory" THEN [q EXCEPT !.tasks[t] = "readdir"]
                        ELSE Finish(q, t)
    IN  IF type = "Throws" THEN Finish(r, t)
        ELSE IF IgnoresThrows(relativePath) THEN Finish(r, t)
        ELSE IF shouldExcludeFile(relativePath, GlobalExcluder)
             THEN Leave(RecordExcluded(r, relativePath))
        ELSE IF reason # ""
             THEN Leave(RecordIgnored(r, relativePath, reason))
        ELSE IF type = "File" THEN Finish(AddFile(r, fsPath), t)
        ELSE IF type = "Directory" THEN [r EXCEPT !.tasks[t] = "readdir"]
        ELSE Finish(r, t)

\* Mutant of Visit: the type is tested by its File and Directory bits, so
\* that a symbolic link is followed.
VisitFollowsLinks(r, t, type) ==
    LET fsPath       == t[2]
        relativePath == AsRelativePath(fsPath)
        isDirectory  == type \in {"Directory", "Directory|SymbolicLink"}
        isFile       == type \in {"File", "File|SymbolicLink"}
        currentDir   == IF isDirectory THEN fsPath ELSE Dirname(fsPath)
        reason       == IgnoreWalk(r.compiledIgnores, GetWorkspaceFolder(fsPath),
                                   fsPath, currentDir)
    IN  IF type = "Throws" THEN Finish(r, t)
        ELSE IF IgnoresThrows(relativePath) THEN Finish(r, t)
        ELSE IF shouldExcludeFile(relativePath, GlobalExcluder)
             THEN Finish(RecordExcluded(r, relativePath), t)
        ELSE IF reason # ""
             THEN Finish(RecordIgnored(r, relativePath, reason), t)
        ELSE IF isFile THEN Finish(AddFile(r, fsPath), t)
        ELSE IF isDirectory THEN [r EXCEPT !.tasks[t] = "readdir"]
        ELSE Finish(r, t)

\* Lines 235-279 of the call t once its stat has answered type, up to the
\* call's return or its next await (readDirectory).
Visit(r, t, type) ==
    LET fsPath       == t[2]
        relativePath == AsRelativePath(fsPath)
        currentDir   == IF type = "Directory" THEN fsPath ELSE Dirname(fsPath)
        reason       == IgnoreWalk(r.compiledIgnores, GetWorkspaceFolder(fsPath),
                                   fsPath, currentDir)
    IN  IF type = "Throws" THEN Finish(r, t)
        ELSE IF IgnoresThrows(relativePath) THEN Finish(r, t)
        ELSE IF shouldExcludeFile(relativePath, GlobalExcluder)
             THEN Finish(RecordExcluded(r, relativePath), t)
        ELSE IF reason # ""
             THEN Finish(RecordIgnored(r, relativePath, reason), t)
        ELSE IF type = "File" THEN Finish(AddFile(r, fsPath), t)
        ELSE IF type = "Directory" THEN [r EXCEPT !.tasks[t] = "readdir"]
        ELSE Finish(r, t)

Children(r, t) ==
    {c \in DOMAIN r.tasks :
        /\ c[1] = t[1]
        /\ c[2] # t[2]
        /\ c[2] \in DOMAIN ParentDirectory
        /\ ParentDirectory[c[2]] = t[2]}

\* Line 234: the stat of a call's uri resolves or throws.
StatResolves(i, t) ==
    /\ run[i].pc = "collect"
    /\ run[i].tasks[t] = "stat"
    /\ Update(i, Visit(run[i], t, StatType(t[2], disk)))
    /\ UNCHANGED <<ignoreFileCache, disk>>

\* Mutant of ReadDirResolves: the calls for the children do not look at
\* the cancellation token (the check of line 231 is missing).
ReadDirResolvesNoEntryCheck(i, t) ==
    LET r     == run[i]
        kids  == {<<t[1], q>> : q \in ReadDirectory(t[2], disk)}
        tasks == [c \in DOMAIN r.tasks \cup kids |->
                     IF c \in kids THEN "stat"
                     ELSE IF c = t THEN "join"
                     ELSE r.tasks[c]]
    IN  /\ r.pc = "collect"
        /\ r.tasks[t] = "readdir"
        /\ Update(i, [r EXCEPT !.tasks = tasks])
        /\ UNCHANGED <<ignoreFileCache, disk>>

\* Lines 274-278: readDirectory resolves; collectFiles is called for every
\* child, each call returning at line 231 when cancellation was requested
\* and suspending at its stat otherwise.  A readDirectory that throws is
\* caught at line 280 and the call returns.
ReadDirResolves(i, t) ==
    LET r     == run[i]
        kids  == {<<t[1], q>> : q \in ReadDirectory(t[2], disk)}
        tasks == [c \in DOMAIN r.tasks \cup kids |->
                     IF c \in kids THEN (IF r.cancelled THEN "skipped" ELSE "stat")
                     ELSE IF c = t THEN "join"
                     ELSE r.tasks[c]]
    IN  /\ r.pc = "collect"
        /\ r.tasks[t] = "readdir"
        /\ Update(i, IF t[2] \in UnlistableDirectories THEN Finish(r, t)
                     ELSE [r EXCEPT !.tasks = tasks])
        /\ UNCHANGED <<ignoreFileCache, disk>>

\* Line 275: Promise.all over the children resolves.
TaskJoin(i, t) ==
    /\ run[i].pc = "collect"
    /\ run[i].tasks[t] = "join"
    /\ \A c \in Children(run[i], t) : run[i].tasks[c] \in Returned
    /\ Update(i, Finish(run[i], t))
    /\ UNCHANGED <<ignoreFileCache, disk>>

(***************************************************************************)
(* treeView.ts.  A tree is the set of its nodes below the root, each named *)
(* by the chain of keys that leads to it and mapped to its isFile flag.    *)
(* The rendered text is the string the code builds, with the box-drawing   *)
(* strings written in ASCII, four characters each.                         *)
(***************************************************************************)
Tee    == "|-- "

Corner == "+-- "

Bar    == "|   "

Blank  == "    "

\* The characters of the names of the model, in the order in which
\* localeCompare ranks them (punctuation, digits, letters).
Alphabet == ".0123456789abcdefghijklmnopqrstuvwxyz"

Rank(c) == CHOOSE i \in 1..Len(Alphabet) : CharAt(Alphabet, i) = c

\* a.localeCompare(b) < 0
RECURSIVE LocaleLess(_, _)
LocaleLess(a, b) ==
    IF Len(b) = 0 THEN FALSE
    ELSE IF Len(a) = 0 THEN TRUE
    ELSE IF CharAt(a, 1) = CharAt(b, 1)
         THEN LocaleLess(SubSeq(a, 2, Len(a)), SubSeq(b, 2, Len(b)))
    ELSE Rank(CharAt(a, 1)) < Rank(CharAt(b, 1))

\* The keys every object literal {} answers through Object.prototype:
\* children[key] is truthy for them although no child was stored.
InheritedKeys ==
    {"constructor", "toString", "toLocaleString", "valueOf", "hasOwnProperty",
     "isPrototypeOf", "propertyIsEnumerable", "__proto__"}

EmptyTree == [nodes |-> EmptyMap, threw |-> FALSE]

\* Lines 14-26, from part i of one path: currentNode is the chain of keys
\* followed so far, isTreeNode tells whether it is a node of the tree or an
\* object found through Object.prototype, whose children is undefined, so
\* that line 18 throws a TypeError for the next part.
RECURSIVE InsertParts(_, _, _, _, _)
InsertParts(tree, parts, i, currentNode, isTreeNode) ==
    IF i > Len(parts) THEN tree
    ELSE IF ~isTreeNode THEN [tree EXCEPT !.threw = TRUE]
    ELSE LET part   == parts[i]
             child  == Append(currentNode, part)
             isFile == i = Len(parts)
         IN  IF child \in DOMAIN tree.nodes
             THEN InsertParts(tree, parts, i + 1, child, TRUE)
             ELSE IF part \in InheritedKeys
             THEN InsertParts(tree, parts, i + 1, child, FALSE)
             ELSE InsertParts([tree EXCEPT !.nodes = (child :> isFile) @@ @],
                              parts, i + 1, child, TRUE)

\* Lines 10-27 from the n-th path on.
RECURSIVE InsertPaths(_, _, _)
InsertPaths(tree, paths, n) ==
    IF n > Len(paths) \/ tree.threw THEN tree
    ELSE InsertPaths(InsertParts(tree, Split(paths[n], "/"), 1, <<>>, TRUE), paths, n + 1)

\* createTreeStructure(paths), lines 6-29; threw when it ends by a TypeError.
createTreeStructure(paths) == InsertPaths(EmptyTree, paths, 1)

\* node.name
NodeName(node) == IF node = <<>> THEN "root" ELSE node[Len(node)]

\* Object.keys(node.children), as the nodes they name.
ChildrenKeys(tree, node) ==
    {c \in DOMAIN tree.nodes :
        Len(c) = Len(node) + 1 /\ SubSeq(c, 1, Len(node)) = node}

\* Lines 41-48: the comparator answers a negative number for (a, b).
SortsBefore(tree, a, b) ==
    IF tree.nodes[a] = tree.nodes[b]
    THEN LocaleLess(NodeName(a), NodeName(b))
    ELSE ~tree.nodes[a]

\* childrenKeys.sort(...), lines 40-48.
RECURSIVE SortKeys(_, _)
SortKeys(tree, keys) ==
    IF keys = {} THEN <<>>
    ELSE LET first == CHOOSE a \in keys : \A b \in keys \ {a} : SortsBefore(tree, a, b)
         IN  <<first>> \o SortKeys(tree, keys \ {first})

\* generateTreeView(node, prefix, isLast), lines 31-58.
RECURSIVE generateTreeView(_, _, _, _)
generateTreeView(tree, node, prefix, isLast) ==
    LET own  == IF NodeName(node) # "root"
                THEN prefix \o (IF isLast THEN Corner ELSE Tee) \o NodeName(node) \o "\n"
                ELSE ""
        childrenKeys == SortKeys(tree, ChildrenKeys(tree, node))
        newPrefix == prefix \o (IF NodeName(node) = "root" THEN ""
                                ELSE IF isLast THEN Blank ELSE Bar)
        RECURSIVE Rendered(_)
        Rendered(index) ==
            IF index > Len(childrenKeys) THEN ""
            ELSE generateTreeView(tree, childrenKeys[index], newPrefix,
                                  index = Len(childrenKeys))
                     \o Rendered(index + 1)
    IN  own \o Rendered(1)

(***************************************************************************)
(* combineFiles, lines 91-181: the processing loop and the result.         *)
(***************************************************************************)

\* Mutant of NextFile: the cancellation check after the loop (line 108) is
\* missing.
NextFileNoFinalCheck(r, n) ==
    IF n <= Len(r.fileUris)
    THEN IF r.cancelled THEN End(r, "cancelled")
         ELSE [r EXCEPT !.pc = "process", !.idx = n]
    ELSE IF r.summary.processedFiles = 0 THEN End(r, "noText")
    ELSE End(r, "document")

\* Lines 94-112 from the head of the loop at index n: the next processFile
\* call (suspended at its readFile), or the end of the run.
NextFile(r, n) ==
    IF n <= Len(r.fileUris)
    THEN IF r.cancelled THEN End(r, "cancelled")
         ELSE [r EXCEPT !.pc = "process", !.idx = n]
    ELSE IF r.cancelled THEN End(r, "cancelled")
    ELSE IF r.summary.processedFiles = 0 THEN End(r, "noText")
    ELSE End(r, "document")

\* The settings of fileCombine that the document depends on (line 41): all
\* of them, and those that differ from the fallbacks of the code's
\* config.get calls in showFileStructure only.
AllConfigs ==
    [showProcessingSummary : BOOLEAN, llmInstructions : {"", "Answer briefly."},
     showIgnoredFiles : BOOLEAN, showTimings : BOOLEAN, showFileStructure : BOOLEAN]

Configs == {[DefaultConfig EXCEPT !.showFileStructure = show] : show \in BOOLEAN}

\* Mutant of NeedsTree: a single processed file gets a tree too.
NeedsTreeForOneFile(processedPaths) == Len(processedPaths) > 0

\* Line 116
NeedsTree(processedPaths) == Len(processedPaths) > 1

\* Mutant of ReasonKey: the heading does not name the directory.
ReasonKeyWithoutDirectory(ignored) == "Files ignored by rules"

\* Lines 144-145
ReasonKey(ignored) ==
    "Files ignored by rules in ./" \o AsRelativePath(ignored.reason)

\* Lines 143-150: groupedIgnores, a Map that keeps its keys in the order of
\* their insertion, filled from ignoredFiles.
RECURSIVE GroupIgnores(_, _)
GroupIgnores(groupedIgnores, ignoredFiles) ==
    IF Len(ignoredFiles) = 0 THEN groupedIgnores
    ELSE LET reasonKey == ReasonKey(ignoredFiles[1])
             has == {n \in 1..Len(groupedIgnores) : groupedIgnores[n].reason = reasonKey}
             at  == CHOOSE n \in has : TRUE
         IN  GroupIgnores(
                 IF has = {}
                 THEN Append(groupedIgnores,
                             [reason |-> reasonKey, paths |-> <<ignoredFiles[1].path>>])
                 ELSE [groupedIgnores EXCEPT ![at].paths = Append(@, ignoredFiles[1].path)],
                 Tail(ignoredFiles))

\* Lines 140-164: the listings of what was left out.
Listings(summary) ==
    LET groupedIgnores == GroupIgnores(<<>>, summary.ignoredFiles)
    IN  [n \in 1..Len(groupedIgnores) |->
            [kind |-> "ignored", heading |-> groupedIgnores[n].reason \o ":",
             body |-> groupedIgnores[n].paths]]
        \o (IF Len(summary.excludedFiles) > 0
            THEN <<[kind |-> "excluded", heading |-> "Files excluded by global settings:",
                    body |-> summary.excludedFiles]>>
            ELSE <<>>)
        \o (IF Len(summary.binaryFiles) > 0
            THEN <<[kind |-> "binary", heading |-> "Binary files skipped:",
                    body |-> summary.binaryFiles]>>
            ELSE <<>>)

\* Object.keys(summary.timings) at line 168, in the order of lines 90-121;
\* the times themselves are left out.
TimingStages == <<"collectFiles", "processFiles", "treeGeneration", "total">>

\* Mutant of Sections: the tree is emitted before the timings.
SectionsTreeBeforeTimings(r, config, treeView) ==
    (IF config.showProcessingSummary
     THEN <<[kind |-> "summary", heading |-> "# Processing Summary",
             body |-> [totalFiles |-> r.summary.totalFiles,
                       processedFiles |-> r.summary.processedFiles,
                       totalSize |-> r.summary.totalSize,
                       estimatedTokens |-> r.summary.estimatedTokens]]>>
     ELSE <<>>)
    \o (IF config.llmInstructions # ""
        THEN <<[kind |-> "instructions", heading |-> "# Instructions for LLM",
                body |-> config.llmInstructions]>>
        ELSE <<>>)
    \o (IF config.showIgnoredFiles THEN Listings(r.summary) ELSE <<>>)
    \o (IF config.showFileStructure /\ Len(treeView) > 0
        THEN <<[kind |-> "tree", heading |-> "# File Structure", body |-> treeView]>>
        ELSE <<>>)
    \o (IF config.showTimings
        THEN <<[kind |-> "timings", heading |-> "Timings:", body |-> TimingStages]>>
        ELSE <<>>)
    \o <<[kind |-> "files", heading |-> "# Combined Files", body |-> r.combinedContent]>>

\* Lines 123-178: the sections of the document, in the order of emission.
Sections(r, config, treeView) ==
    (IF config.showProcessingSummary
     THEN <<[kind |-> "summary", heading |-> "# Processing Summary",
             body |-> [totalFiles |-> r.summary.totalFiles,
                       processedFiles |-> r.summary.processedFiles,
                       totalSize |-> r.summary.totalSize,
                       estimatedTokens |-> r.summary.estimatedTokens]]>>
     ELSE <<>>)
    \o (IF config.llmInstructions # ""
        THEN <<[kind |-> "instructions", heading |-> "# Instructions for LLM",
                body |-> config.llmInstructions]>>
        ELSE <<>>)
    \o (IF config.showIgnoredFiles THEN Listings(r.summary) ELSE <<>>)
    \o (IF config.showTimings
        THEN <<[kind |-> "timings", heading |-> "Timings:", body |-> TimingStages]>>
        ELSE <<>>)
    \o (IF config.showFileStructure /\ Len(treeView) > 0
        THEN <<[kind |-> "tree", heading |-> "# File Structure", body |-> treeView]>>
        ELSE <<>>)
    \o <<[kind |-> "files", heading |-> "# Combined Files", body |-> r.combinedContent]>>

\* Lines 114-179, for a run that passed line 112: the tree is built and
\* rendered, the document is put together under the settings config and
\* handed to CombinedFilesPanel.createOrShow.  A TypeError of createTreeStructure
\* leaves the callback and rejects combineFiles.
Assemble(r, config) ==
    IF ~(r.pc = "done" /\ r.outcome = "document") THEN r
    ELSE IF ~NeedsTree(r.processedPaths)
    THEN [r EXCEPT !.config = config, !.output = Sections(r, config, "")]
    ELSE LET tree == createTreeStructure(r.processedPaths)
         IN  IF tree.threw THEN [r EXCEPT !.outcome = "exception"]
             ELSE LET treeView == generateTreeView(tree, <<>>, "", TRUE)
                  IN  [r EXCEPT !.config = config, !.treeView = treeView,
                                !.output = Sections(r, config, treeView)]

\* Mutant of CollectDoneWith: the root calls are not awaited.
CollectDoneWithoutFanIn(i, configs) ==
    LET r == run[i]
    IN  /\ r.pc = "collect"
        /\ \E config \in configs :
               Update(i, Assemble(NextFile([r EXCEPT !.summary.totalFiles =
                                                        Len(r.fileUris)], 1), config))
        /\ UNCHANGED <<ignoreFileCache, disk>>

\* Lines 87-91: Promise.all over the root calls resolves; the settings are
\* one of configs.
CollectDoneWith(i, configs) ==
    LET r == run[i]
    IN  /\ r.pc = "collect"
        /\ \A t \in DOMAIN r.tasks : r.tasks[t] \in Returned
        /\ \E config \in configs :
               Update(i, Assemble(NextFile([r EXCEPT !.summary.totalFiles =
                                                        Len(r.fileUris)], 1), config))
        /\ UNCHANGED <<ignoreFileCache, disk>>

CollectDone(i) == CollectDoneWith(i, Configs)

\* Mutant of processFile: a binary file is recorded and then formatted like
\* a text file (the return after the push is missing).
processFileKeepsBinary(r, uri) ==
    IF uri \in UnreadableFiles
    THEN [r EXCEPT !.readFailed = @ \cup {uri}]
    ELSE IF uri \in BinaryFiles
    THEN [r EXCEPT !.summary.binaryFiles = Append(@, AsRelativePath(uri)),
                   !.processedPaths = Append(@, AsRelativePath(uri)),
                   !.summary.processedFiles = @ + 1]
    ELSE [r EXCEPT !.processedPaths = Append(@, AsRelativePath(uri)),
                   !.summary.processedFiles = @ + 1]

\* Mutant of EstimateTokens: the quotient is rounded down.
EstimateTokensFloor(length) == length \div 4

\* Line 341: Math.ceil(content.length / 4)
EstimateTokens(length) ==
    IF length % 4 = 0 THEN length \div 4 ELSE (length \div 4) + 1

\* Line 329: readFile(uri) throws.
ReadFails(uri) ==
    \/ uri \in UnreadableFiles
    \/ uri \in IgnoreFilePaths /\ ~disk[uri].readable

\* Line 338: the text read from uri (an ignore file is a text file too).
ContentOf(uri) == IF uri \in IgnoreFilePaths THEN disk[uri].text ELSE FileContent[uri]

\* Mutant of processFile: the size of a binary file is added to the total.
processFileSizesBinary(r, uri) ==
    IF ReadFails(uri)
    THEN [r EXCEPT !.readFailed = @ \cup {uri}]
    ELSE IF uri \in BinaryFiles
    THEN [r EXCEPT !.summary.binaryFiles = Append(@, AsRelativePath(uri)),
                   !.summary.totalSize = @ + 4]
    ELSE [r EXCEPT !.processedPaths = Append(@, AsRelativePath(uri)),
                   !.combinedContent =
                       Append(@, [path |-> AsRelativePath(uri),
                                  size |-> Len(FileContent[uri]),
                                  tokens |-> (Len(FileContent[uri]) + 3) \div 4]),
                   !.summary.processedFiles = @ + 1,
                   !.summary.totalSize = @ + Len(FileContent[uri]),
                   !.summary.estimatedTokens = @ + (Len(FileContent[uri]) + 3) \div 4]

\* processFile, lines 327-352, and lines 98-104: a failed read is reported
\* (line 349), a binary file is listed, a text file is formatted and the
\* counters of the summary are advanced.
processFile(r, uri) ==
    IF ReadFails(uri)
    THEN [r EXCEPT !.readFailed = @ \cup {uri}]
    ELSE IF uri \in BinaryFiles
    THEN [r EXCEPT !.summary.binaryFiles = Append(@, AsRelativePath(uri))]
    ELSE LET content  == ContentOf(uri)
             fileSize == Len(content)
             tokens   == EstimateTokens(Len(content))
         IN  [r EXCEPT !.processedPaths = Append(@, AsRelativePath(uri)),
                       !.combinedContent =
                           Append(@, [path |-> AsRelativePath(uri), size |-> fileSize,
                                      tokens |-> tokens]),
                       !.summary.processedFiles = @ + 1,
                       !.summary.totalSize = @ + fileSize,
                       !.summary.estimatedTokens = @ + tokens]

\* Mutant of ProcessResolves: a read failure is not caught in processFile and
\* ends the run.
ProcessResolvesFailureEndsRun(i) ==
    LET r == run[i]
    IN  /\ r.pc = "process"
        /\ \E config \in Configs :
               Update(i, IF ReadFails(r.fileUris[r.idx])
                         THEN End(r, "exception")
                         ELSE Assemble(NextFile(processFile(r, r.fileUris[r.idx]),
                                                r.idx + 1), config))
        /\ UNCHANGED <<ignoreFileCache, disk>>

\* Line 97: the processFile call of fileUris[idx] resolves; the settings
\* are one of configs.
ProcessResolvesWith(i, configs) ==
    LET r == run[i]
    IN  /\ r.pc = "process"
        /\ \E config \in configs :
               Update(i, Assemble(NextFile(processFile(r, r.fileUris[r.idx]),
                                           r.idx + 1), config))
        /\ UNCHANGED <<ignoreFileCache, disk>>

ProcessResolves(i) == ProcessResolvesWith(i, Configs)

\* The user presses Cancel on the progress notification (lines 80-82).
Cancel(i) ==
    /\ run[i].pc \in {"collect", "process"}
    /\ ~run[i].cancelled
    /\ Update(i, [run[i] EXCEPT !.cancelled = TRUE])
    /\ UNCHANGED <<ignoreFileCache, disk>>

(***************************************************************************)
(* Specifications                                                          *)
(***************************************************************************)
MaxRoots == 2

RootCandidates ==
    {"/ws/a", "/ws/a/sub/d.txt", "/ws/y.png", "/ws/b.bin", "/ws/c.txt",
     "/ws2/z.txt"}

RootLists == UNION {[1..n -> RootCandidates] : n \in 0..MaxRoots}

AboveRootText == "*.txt"

\* The texts of /ws/.gitignore and of /ws/a/sub/.filecombine.
IgnoreTexts ==
    { <<NoFile, NoFile>>,
      <<NoFile, TextOf("d.txt")>>,
      <<TextOf("# generated\n\nsub/\n"), TextOf("*.tmp")>>,
      <<TextOf("d.txt\ny.png"), TextOf("d.txt")>>,
      <<TextOf("d.txt\ny.png"), TextOf("!d.txt")>> }

DiskConfigs ==
    {[f \in IgnoreFilePaths |->
        IF f = "/.gitignore" THEN TextOf(AboveRootText)
        ELSE IF f = "/ws/.gitignore" THEN o[1] ELSE o[2]] : o \in IgnoreTexts}

\* No panel has been created.
NoPanels ==
    /\ currentPanel = 0
    /\ webviewPanels = <<>>

Init ==
    /\ run = [i \in Invocations |-> IdleRun]
    /\ ignoreFileCache = EmptyMap
    /\ disk \in DiskConfigs
    /\ NoPanels

\* The awaits of a run up to the end of its traversal.
Traverse(i) ==
    \/ RootStatResolves(i)
    \/ LocStatResolves(i)
    \/ IgnoreStatResolves(i)
    \/ IgnoreReadIO(i)
    \/ IgnoreReadResumes(i)
    \/ \E t \in DOMAIN run[i].tasks : StatResolves(i, t)
    \/ \E t \in DOMAIN run[i].tasks : ReadDirResolves(i, t)
    \/ \E t \in DOMAIN run[i].tasks : TaskJoin(i, t)

Work(i) ==
    \/ Traverse(i)
    \/ CollectDone(i)
    \/ ProcessResolves(i)

Step(i) == Work(i) \/ Cancel(i)

\* One invocation of the command on an unchanged file system.
Next ==
    \/ Invoke(1, RootLists)
    \/ Step(1)

Spec == Init /\ [][Next]_vars

(***************************************************************************)
(* Two invocations of the command that may overlap, while the user edits   *)
(* the workspace's .gitignore between two texts.                           *)
(***************************************************************************)
OverlapRootLists == {<<"/ws/a/sub/d.txt">>, <<"/ws/a">>}

EditedTexts == {"d.txt\ny.png", "sub/"}

EditIgnoreFile ==
    /\ disk["/ws/.gitignore"].exists
    /\ \E t \in EditedTexts :
          /\ t # disk["/ws/.gitignore"].text
          /\ disk' = [disk EXCEPT !["/ws/.gitignore"] = TextOf(t)]
    /\ UNCHANGED <<run, ignoreFileCache, currentPanel, webviewPanels>>

InitOverlap ==
    /\ Init
    /\ disk["/ws/.gitignore"].exists
    /\ disk["/ws/.gitignore"].text \in EditedTexts

NextOverlap ==
    \/ \E i \in Invocations : Invoke(i, OverlapRootLists)
    \/ \E i \in Invocations : Step(i)
    \/ EditIgnoreFile

SpecOverlap == InitOverlap /\ [][NextOverlap]_vars

(***************************************************************************)
(* The command run twice in a row on the same selection, on an unchanged   *)
(* file system, neither run cancelled.                                     *)
(***************************************************************************)
TwiceRootCandidates == {"/ws/a", "/ws/a/sub/d.txt", "/ws/y.png", "/ws/b.bin"}

TwiceRootLists == UNION {[1..n -> TwiceRootCandidates] : n \in 1..MaxRoots}

NextTwice ==
    \/ Invoke(1, TwiceRootLists)
    \/ run[1].pc = "done" /\ Start(2, run[1].uris)
    \/ \E i \in Invocations : Work(i)

SpecTwice == Init /\ [][NextTwice]_vars

(***************************************************************************)
(* One invocation on a wider choice of selections and ignore files: roots  *)
(* that do not exist, ignore files that cannot be read, a directory that   *)
(* an ignore rule matches, directories below dist, several text files.     *)
(***************************************************************************)
WideRootLists ==
    { <<"/ws/missing">>, <<"/ws/missing", "/ws/gone">>, <<"/ws/missing", "/ws/t/f.txt">>,
      <<"/ws/a">>, <<"/ws/a/sub/d.txt">>, <<"/ws/a/sub/d.txt", "/ws/a">>,
      <<"/ws/dist">>, <<"/ws/dist", "/ws/dist/out">>,
      <<"/ws/t">>, <<"/ws/t/e.txt">>, <<"/ws/t/f.txt">>, <<"/ws/t", "/ws/a/sub/d.txt">>,
      <<"/ws/b.bin", "/ws/c.txt">>, <<"/ws/y.png">>,
      <<"/ws/t/f.txt", "/ws/b.bin", "/ws/c.txt">>,
      <<"/ws/l">>, <<"/ws/l/link", "/ws/l/g.txt">>,
      <<"/ws/t", "/ws/a/sub/d.txt", "/ws/b.bin", "/ws/y.png">> }

\* The contents of /ws/.gitignore and of /ws/a/sub/.filecombine.
WideIgnoreFiles ==
    { <<NoFile, NoFile>>,
      <<TextOf("sub"), Unreadable>>,
      <<Unreadable, TextOf("d.txt")>>,
      <<TextOf("t"), NoFile>>,
      <<TextOf("e.txt"), TextOf("d.txt")>> }

WideDiskConfigs ==
    {[f \in IgnoreFilePaths |->
        IF f = "/.gitignore" THEN TextOf(AboveRootText)
        ELSE IF f = "/ws/.gitignore" THEN o[1] ELSE o[2]] : o \in WideIgnoreFiles}

InitWide ==
    /\ run = [i \in Invocations |-> IdleRun]
    /\ ignoreFileCache = EmptyMap
    /\ disk \in WideDiskConfigs
    /\ NoPanels

NextWide ==
    \/ Invoke(1, WideRootLists)
    \/ Traverse(1)
    \/ CollectDoneWith(1, AllConfigs)
    \/ ProcessResolvesWith(1, AllConfigs)
    \/ Cancel(1)

SpecWide == InitWide /\ [][NextWide]_vars

(***************************************************************************)
(* The tree view as a function of the list of processed paths: every list  *)
(* of up to MaxPaths relative paths that one file system can hold (no path *)
(* twice, no path that is a directory of another one) is rendered.         *)
(***************************************************************************)
MaxPaths == 3

TreePathCandidates ==
    {"b.txt", "a.txt", "a/c.txt", "a/a.txt", "a/0.txt", "a/b/x.txt", "z/y.txt",
     "root/r.txt", "constructor/k.txt"}

TreePathLists ==
    {paths \in UNION {[1..n -> TreePathCandidates] : n \in 1..MaxPaths} :
        \A m, n \in 1..Len(paths) :
            m # n => paths[m] # paths[n] /\ ~StartsWith(paths[n], paths[m] \o "/")}

InitTree ==
    /\ run \in {[i \in Invocations |->
                    IF i = 1 THEN [IdleRun EXCEPT !.processedPaths = paths] ELSE IdleRun] :
                 paths \in TreePathLists}
    /\ ignoreFileCache = EmptyMap
    /\ disk \in WideDiskConfigs
    /\ NoPanels

\* Lines 117-118: createTreeStructure(processedPaths), then generateTreeView
\* of its result unless it threw.
RenderTree(i) ==
    LET r    == run[i]
        tree == createTreeStructure(r.processedPaths)
    IN  /\ r.pc = "idle"
        /\ r.processedPaths # <<>>
        /\ Update(i, IF tree.threw THEN End(r, "exception")
                     ELSE [End(r, "document") EXCEPT
                              !.treeView = generateTreeView(tree, <<>>, "", TRUE)])
        /\ UNCHANGED <<ignoreFileCache, disk>>

NextTree == RenderTree(1)

SpecTree == InitTree /\ [][NextTree]_vars

(***************************************************************************)
(* The parsing of an ignore file as a function of its content: every text  *)
(* of up to MaxLines lines is parsed into the patterns of an entry.        *)
(***************************************************************************)
MaxLines == 2

LineCandidates ==
    {"", "  ", "\t", "#", "# build output", "  # indented", "\t#tab", "*.log", "sub/",
     "!keep.log", " a b", "a#b"}

ContentCandidates ==
    {Join(lines, "\n") : lines \in UNION {[1..n -> LineCandidates] : n \in 1..MaxLines}}

InitParse ==
    /\ run \in {[i \in Invocations |->
                    IF i = 1 THEN [IdleRun EXCEPT !.readBuf = content] ELSE IdleRun] :
                 content \in ContentCandidates}
    /\ ignoreFileCache = EmptyMap
    /\ disk \in DiskConfigs
    /\ NoPanels

\* Lines 309-310: the patterns and the entry of the content that was read.
ParseContent(i) ==
    LET r     == run[i]
        entry == [filePath |-> "/ws/.gitignore", patterns |-> ParsePatterns(r.readBuf),
                  readWhen |-> {}]
    IN  /\ r.pc = "idle"
        /\ Update(i, [End(r, "none") EXCEPT !.relevantIgnoreFiles = <<entry>>])
        /\ UNCHANGED <<ignoreFileCache, disk>>

NextParse == ParseContent(1)

SpecParse == InitParse /\ [][NextParse]_vars

(***************************************************************************)
(* The panel under any sequence of calls of createOrShow and dispose and   *)
(* of the user closing a panel or moving it to the background, up to       *)
(* MaxPanels panels being created.                                         *)
(***************************************************************************)
MaxPanels == 3

PanelContents == {"", "a b", "%41", "# x\n"}

InitPanel ==
    /\ run = [i \in Invocations |-> IdleRun]
    /\ ignoreFileCache = EmptyMap
    /\ disk = [f \in IgnoreFilePaths |-> NoFile]
    /\ NoPanels

\* CombinedFilesPanel.createOrShow(extensionUri, content)
CallCreateOrShow ==
    /\ currentPanel # 0 \/ Len(webviewPanels) < MaxPanels
    /\ \E content \in PanelContents : createOrShow(content)
    /\ UNCHANGED <<run, ignoreFileCache, disk>>

\* CombinedFilesPanel.currentPanel.dispose()
CallDispose ==
    /\ currentPanel # 0
    /\ dispose(currentPanel)
    /\ UNCHANGED <<run, ignoreFileCache, disk>>

\* The user closes panel p: the editor disposes it and fires onDidDispose,
\* whose listener (line 114) calls dispose() of the panel's instance.
UserCloses(p) ==
    /\ ~webviewPanels[p].disposed
    /\ dispose(p)
    /\ UNCHANGED <<run, ignoreFileCache, disk>>

\* The user brings another tab of the column to the front.
UserHides(p) ==
    /\ ~webviewPanels[p].disposed
    /\ webviewPanels[p].visible
    /\ webviewPanels' = [webviewPanels EXCEPT ![p].visible = FALSE]
    /\ UNCHANGED <<run, ignoreFileCache, disk, currentPanel>>

NextPanel ==
    \/ CallCreateOrShow
    \/ CallDispose
    \/ \E p \in 1..Len(webviewPanels) : UserCloses(p)
    \/ \E p \in 1..Len(webviewPanels) : UserHides(p)

SpecPanel == InitPanel /\ [][NextPanel]_vars

(***************************************************************************)
(* Properties                                                              *)
(***************************************************************************)
\* The run has finished its collection and was not cancelled.
Collected(r) == r.pc \in {"process", "done"} /\ r.outcome # "noSelection" /\ ~r.cancelled

\* The run ended with every collected file processed.
Completed(r) == r.pc = "done" /\ r.outcome \in {"noText", "document"}

IgnoredPaths(r) == {r.summary.ignoredFiles[n].path : n \in 1..Len(r.summary.ignoredFiles)}

\* The paths whose collectFiles call went past its stat and has returned.
Visited(r) == {t[2] : t \in {u \in DOMAIN r.tasks : r.tasks[u] = "done"}}

\* C1: no absolute file path occurs more than once in fileUris, in every
\* state of every interleaving of the collection.
C1_NoDuplicateFile ==
    \A i \in Invocations :
        \A m, n \in 1..Len(run[i].fileUris) :
            m # n => run[i].fileUris[m] # run[i].fileUris[n]

\* A directory and a file inside it were both selected, or the same root
\* twice, and the file was collected.
C1_Witness ==
    /\ Completed(run[1])
    /\ run[1].uris \in {<<"/ws/a", "/ws/a/sub/d.txt">>, <<"/ws/a/sub/d.txt", "/ws/a/sub/d.txt">>}
    /\ "/ws/a/sub/d.txt" \in SeqToSet(run[1].fileUris)

\* C2: a visited path that the global excluder matches is recorded in
\* excludedFiles and never in ignoredFiles, also when a matcher on its
\* ancestor chain ignores it.
C2_GlobalFirst ==
    \A i \in Invocations :
        \A p \in Visited(run[i]) :
            (StatType(p, disk) # "Throws" /\ ~IgnoresThrows(AsRelativePath(p))
                /\ shouldExcludeFile(AsRelativePath(p), GlobalExcluder))
            => /\ AsRelativePath(p) \in SeqToSet(run[i].summary.excludedFiles)
               /\ AsRelativePath(p) \notin IgnoredPaths(run[i])

\* y.png matches *.png of the global patterns and y.png of /ws/.gitignore.
C2_Witness ==
    /\ "/ws/y.png" \in Visited(run[1])
    /\ "/ws" \in DOMAIN run[1].compiledIgnores
    /\ Ignores(run[1].compiledIgnores["/ws"], "y.png")
    /\ "y.png" \in SeqToSet(run[1].summary.excludedFiles)

\* dir is a proper ancestor of the workspace root.
AboveRoot(dir) == dir # WorkspaceRoot /\ IsAncestorOrSelf(dir, WorkspaceRoot)

\* C9: the locator never examines a directory above the workspace root: it
\* neither stats nor reads an ignore file there, and no such file is cached,
\* returned or compiled.
C9_Boundary ==
    /\ \A f \in DOMAIN ignoreFileCache : ~AboveRoot(Dirname(f))
    /\ \A i \in Invocations :
          /\ \A d \in run[i].visitedDirs : ~AboveRoot(d)
          /\ run[i].pc \in {"ignStat", "ignRead", "ignResume"} => ~AboveRoot(run[i].currentUri)
          /\ \A n \in 1..Len(run[i].relevantIgnoreFiles) :
                ~AboveRoot(Dirname(run[i].relevantIgnoreFiles[n].filePath))
          /\ \A n \in 1..Len(run[i].allRelevantIgnoreFiles) :
                ~AboveRoot(Dirname(run[i].allRelevantIgnoreFiles[n].filePath))
          /\ \A d \in DOMAIN run[i].compiledIgnores : ~AboveRoot(d)

\* The walk went up to the workspace root and found its .gitignore, while a
\* .gitignore exists in the directory above.
C9_Witness ==
    /\ disk["/.gitignore"].exists
    /\ run[1].pc = "collect"
    /\ "/ws/a/sub" \in SeqToSet(run[1].uniqueStartDirs)
    /\ WorkspaceRoot \in DOMAIN run[1].compiledIgnores

\* C10: no invocation uses an ignore-file entry whose text was read from
\* disk before that invocation started.
C10_NoStaleEntry ==
    \A i \in Invocations :
        /\ \A n \in 1..Len(run[i].relevantIgnoreFiles) :
              i \in run[i].relevantIgnoreFiles[n].readWhen
        /\ \A n \in 1..Len(run[i].allRelevantIgnoreFiles) :
              i \in run[i].allRelevantIgnoreFiles[n].readWhen


\* The absolute path of a workspace-relative path.
AbsolutePath(relativePath) == JoinPath(WorkspaceRoot, relativePath)

InsideWorkspace(dir) == IsAncestorOrSelf(WorkspaceRoot, dir)

Longest(S) == CHOOSE d \in S : \A e \in S : Len(e) <= Len(d)

\* The processed, excluded, ignored and binary lists of a run, as sets.
ResultSets(r) ==
    [included |-> SeqToSet(r.processedPaths),
     excluded |-> SeqToSet(r.summary.excludedFiles),
     ignored  |-> SeqToSet(r.summary.ignoredFiles),
     binary   |-> SeqToSet(r.summary.binaryFiles)]

RefStartDirs(R) ==
    {IF StatType(u, disk) = "Directory" THEN u ELSE Dirname(u) :
        u \in {v \in R : StatType(v, disk) # "Throws"}}

\* The patterns of the ignore files present in directory d.
RefRules(d) ==
    LET Patterns(n) ==
            LET f == JoinPath(d, IgnoreFileNames[n])
            IN  IF f \in IgnoreFilePaths /\ disk[f].exists
                THEN ParsePatterns(disk[f].text) ELSE <<>>
    IN  Patterns(1) \o Patterns(2)

RefMatcherDirs(R) ==
    {d \in Directories :
        /\ InsideWorkspace(d)
        /\ \E s \in RefStartDirs(R) : IsAncestorOrSelf(d, s)
        /\ \E n \in 1..Len(IgnoreFileNames) :
              /\ JoinPath(d, IgnoreFileNames[n]) \in IgnoreFilePaths
              /\ disk[JoinPath(d, IgnoreFileNames[n])].exists}

RefReason(R, p) ==
    LET C == {d \in RefMatcherDirs(R) :
                 d # p /\ IsAncestorOrSelf(d, p) /\ Ignores(RefRules(d), Relative(d, p))}
    IN  IF C = {} THEN "" ELSE Longest(C)

RefValid(p) == StatType(p, disk) # "Throws" /\ ~IgnoresThrows(AsRelativePath(p))

RefExcludes(p) == RefValid(p) /\ shouldExcludeFile(AsRelativePath(p), GlobalExcluder)

RefIgnores(R, p) == RefValid(p) /\ ~RefExcludes(p) /\ RefReason(R, p) # ""

RefPasses(R, p) == RefValid(p) /\ ~RefExcludes(p) /\ RefReason(R, p) = ""

RefReached(R) ==
    {p \in Existing(disk) \cup R :
        \E u \in R :
            /\ IsAncestorOrSelf(u, p)
            /\ \A q \in Directories :
                  (q # p /\ IsAncestorOrSelf(u, q) /\ IsAncestorOrSelf(q, p))
                      => RefPasses(R, q)}

RefCollected(R) == {p \in RefReached(R) : StatType(p, disk) = "File" /\ RefPasses(R, p)}

RefResult(R) ==
    [included |-> {AsRelativePath(p) : p \in RefCollected(R) \ (BinaryFiles \cup UnreadableFiles)},
     excluded |-> {AsRelativePath(p) : p \in {q \in RefReached(R) : RefExcludes(q)}},
     ignored  |-> {[path |-> AsRelativePath(p), reason |-> RefReason(R, p)] :
                      p \in {q \in RefReached(R) : RefIgnores(R, q)}},
     binary   |-> {AsRelativePath(p) : p \in RefCollected(R) \cap BinaryFiles}]

\* C4: the sets a completed run yields (the collected files, the processed
\* paths, the excluded paths, the ignored paths with their directories and
\* the binary paths) are determined by the set of selected roots: the order
\* of the roots does not matter.
C4_RootOrderIndependent ==
    Completed(run[1]) =>
        LET R == SeqToSet(run[1].uris)
        IN  /\ SeqToSet(run[1].fileUris) = RefCollected(R)
            /\ ResultSets(run[1]) = RefResult(R)

\* Two different roots whose start directories differ, the second one
\* contributing the matcher that ignores the collected file's sibling.
C4_Witness ==
    /\ Completed(run[1])
    /\ run[1].uris = <<"/ws/b.bin", "/ws/a/sub/d.txt">>
    /\ run[1].summary.ignoredFiles # <<>>
    /\ run[1].summary.binaryFiles # <<>>

\* C5: two complete runs over the same roots and the same tree yield the
\* same sets, whatever the order in which their awaits resolved.
C5_ScheduleIndependent ==
    (Completed(run[1]) /\ Completed(run[2])) => ResultSets(run[1]) = ResultSets(run[2])

\* Two complete runs that collected their files in different orders.
C5_Witness ==
    /\ Completed(run[1])
    /\ Completed(run[2])
    /\ run[1].fileUris # run[2].fileUris
    /\ run[1].summary.ignoredFiles # <<>>


\* C6 as claimed: the rules of every ignore file of the workspace apply to
\* the files below its directory, so no collected file is ignored by an
\* ignore file present in one of its ancestor directories.
C6_EveryIgnoreFileApplied ==
    \A i \in Invocations :
        Collected(run[i]) =>
            \A g \in {h \in IgnoreFilePaths : disk[h].exists /\ InsideWorkspace(Dirname(h))} :
                \A n \in 1..Len(run[i].fileUris) :
                    IsAncestorOrSelf(Dirname(g), run[i].fileUris[n])
                        => ~Ignores(ParsePatterns(disk[g].text),
                                    Relative(Dirname(g), run[i].fileUris[n]))

\* The parent directories of a tested path, each with its trailing "/".
RECURSIVE ParentChain(_)
ParentChain(tested) ==
    IF ParentOf(tested) = "" THEN {}
    ELSE {ParentOf(tested)} \cup ParentChain(ParentOf(tested))

\* The matcher has a rule, of either polarity, that matches the path or one
\* of its parent directories.
HasRuleAbout(rules, tested) ==
    \E n \in 1..Len(rules) :
        \E q \in {tested} \cup ParentChain(tested) : RuleMatches(rules[n], q)

\* The compiled matchers on the upward walk of p.
WalkDirs(compiled, p) ==
    {d \in DOMAIN compiled : d # p /\ IsAncestorOrSelf(d, p) /\ InsideWorkspace(d)}

\* C7 as claimed: for a visited path that the global excluder lets through,
\* the deepest matcher on its walk that has a rule about it decides whether
\* the path is ignored.
C7_DeepestRuleDecides ==
    \A i \in Invocations :
        \A p \in Visited(run[i]) :
            LET withRule == {d \in WalkDirs(run[i].compiledIgnores, p) :
                                HasRuleAbout(run[i].compiledIgnores[d], Relative(d, p))}
            IN  (RefValid(p) /\ ~RefExcludes(p) /\ withRule # {})
                => (AsRelativePath(p) \in IgnoredPaths(run[i])
                    <=> Ignores(run[i].compiledIgnores[Longest(withRule)],
                                Relative(Longest(withRule), p)))

\* The deepest directory on the walk of p whose matcher ignores p.
DeepestIgnoring(compiled, p) ==
    LET C == {d \in WalkDirs(compiled, p) : Ignores(compiled[d], Relative(d, p))}
    IN  IF C = {} THEN "" ELSE Longest(C)

\* C8: when a run has ended, a visited path that the global excluder lets
\* through and that some matcher on its walk ignores is recorded in
\* ignoredFiles, with the deepest such directory as reason, and is not
\* collected; and every record of ignoredFiles is of this kind.
C8_IgnoredWithDeepestReason ==
    \A i \in Invocations :
        run[i].pc = "done" =>
            /\ \A p \in Visited(run[i]) :
                  LET reason == DeepestIgnoring(run[i].compiledIgnores, p)
                  IN  (RefValid(p) /\ ~RefExcludes(p) /\ reason # "")
                      => /\ [path |-> AsRelativePath(p), reason |-> reason]
                                \in SeqToSet(run[i].summary.ignoredFiles)
                         /\ p \notin SeqToSet(run[i].fileUris)
            /\ \A n \in 1..Len(run[i].summary.ignoredFiles) :
                  LET rec == run[i].summary.ignoredFiles[n]
                  IN  /\ rec.reason = DeepestIgnoring(run[i].compiledIgnores,
                                                      AbsolutePath(rec.path))
                      /\ AbsolutePath(rec.path) \notin SeqToSet(run[i].fileUris)

\* /ws/.gitignore holds "sub/" and the file sub/d.txt is selected directly:
\* it is recorded as ignored, with the workspace root as reason.
C8_Witness ==
    /\ Completed(run[1])
    /\ run[1].uris = <<"/ws/a/sub/d.txt">>
    /\ DOMAIN run[1].compiledIgnores = {WorkspaceRoot, "/ws/a/sub"}
    /\ "sub/" \in SeqToSet(run[1].compiledIgnores[WorkspaceRoot])
    /\ run[1].summary.ignoredFiles = <<[path |-> "a/sub/d.txt", reason |-> "/ws"]>>
    /\ run[1].fileUris = <<>>

(***************************************************************************)
(* Cancellation and the outcomes of a run                                  *)
(***************************************************************************)
\* Some await of the run is ready to resolve: a stat, a readDirectory, a
\* Promise.all whose calls have all returned, or a processFile.
CanResume(r) ==
    \/ r.pc = "process"
    \/ /\ r.pc = "collect"
       /\ \/ \A t \in DOMAIN r.tasks : r.tasks[t] \in Returned
          \/ \E t \in DOMAIN r.tasks :
                \/ r.tasks[t] \in {"stat", "readdir"}
                \/ /\ r.tasks[t] = "join"
                   /\ \A c \in Children(r, t) : r.tasks[c] \in Returned

\* C11: once cancellation has been requested, during the traversal or the
\* processing, the run never emits a document: while it goes on it has no
\* outcome and one of its awaits can resolve, and when it ends its outcome
\* is the silent return of line 95 or 108.
C11_CancelledNoDocument ==
    \A i \in Invocations :
        run[i].cancelled =>
            IF run[i].pc = "done" THEN run[i].outcome = "cancelled"
            ELSE run[i].outcome = "none" /\ CanResume(run[i])

\* A run cancelled while its last file was being read, after another file
\* had been formatted.
C11_Witness ==
    /\ run[1].pc = "done"
    /\ run[1].cancelled
    /\ run[1].summary.processedFiles > 0
    /\ run[1].idx = Len(run[1].fileUris)
    /\ Len(run[1].processedPaths) + Cardinality(run[1].readFailed)
           + Len(run[1].summary.binaryFiles) = Len(run[1].fileUris)

\* The relative paths of the files of a list that can be read as text, in
\* the order of the list.
ReadableTexts(fileUris) ==
    LET IsReadableText(u) == ~ReadFails(u) /\ u \notin BinaryFiles
        text == SelectSeq(fileUris, IsReadableText)
    IN  [n \in 1..Len(text) |-> AsRelativePath(text[n])]

\* C12: in a run that was not cancelled, every collected file whose read
\* failed is reported and skipped, every other collected file is still
\* processed, in order, and the document is emitted when one of them is a
\* text file.
C12_ReadFailureSkipsOneFile ==
    \A i \in Invocations :
        (run[i].pc = "done" /\ ~run[i].cancelled /\ run[i].outcome # "noSelection") =>
            /\ run[i].outcome \in {"noText", "document"}
            /\ run[i].readFailed = {u \in SeqToSet(run[i].fileUris) : ReadFails(u)}
            /\ run[i].processedPaths = ReadableTexts(run[i].fileUris)
            /\ run[i].summary.processedFiles = Len(run[i].processedPaths)
            /\ run[i].outcome = "document" <=> run[i].processedPaths # <<>>

\* The first collected file could not be read, the second one was read and
\* the document was emitted.
C12_Witness ==
    /\ Completed(run[1])
    /\ run[1].fileUris = <<"/ws/c.txt", "/ws/a/sub/d.txt">>
    /\ run[1].readFailed = {"/ws/c.txt"}
    /\ run[1].processedPaths = <<"a/sub/d.txt">>
    /\ run[1].outcome = "document"

\* None of the selected roots can be stat'ed.
NoRootStats(r) ==
    /\ r.uris # <<>>
    /\ \A n \in 1..Len(r.uris) : StatType(r.uris[n], disk) = "Throws"

\* C13 as claimed: a run, not cancelled, none of whose roots can be stat'ed
\* ends with a failure raised to its caller, not with the warning of the
\* empty result.
C13_UnstatableRootsEscalate ==
    \A i \in Invocations :
        (run[i].pc = "done" /\ ~run[i].cancelled /\ NoRootStats(run[i]))
            => run[i].outcome = "exception"

\* C14: a run on a selection that is not empty, not cancelled, that ends with
\* no text file processed (nothing collected, everything excluded or
\* ignored, only binary or unreadable files) ends by the warning
\* 'No text files found.': no exception, no document.
C14_NoTextWarning ==
    \A i \in Invocations :
        (run[i].pc = "done" /\ ~run[i].cancelled /\ run[i].uris # <<>>
            /\ run[i].summary.processedFiles = 0)
            => /\ run[i].outcome = "noText"
               /\ run[i].output = <<>>

\* Runs that end with the warning: no root could be stat'ed; the selected
\* directory is ignored as a whole; the only file is excluded by the
\* settings; the two files are a binary one and an unreadable one.
C14_Witness ==
    /\ run[1].pc = "done" /\ ~run[1].cancelled
    /\ run[1].outcome = "noText"
    /\ \/ NoRootStats(run[1])
       \/ run[1].uris = <<"/ws/t">> /\ run[1].fileUris = <<>>
              /\ run[1].summary.ignoredFiles # <<>>
       \/ run[1].uris = <<"/ws/y.png">> /\ run[1].summary.excludedFiles # <<>>
       \/ run[1].fileUris = <<"/ws/b.bin", "/ws/c.txt">>
              /\ run[1].readFailed = {"/ws/c.txt"}

\* The directories that a call for startDir has to visit: startDir and its
\* parents while their path begins with the workspace root's, the workspace
\* root or the root of the file system being the last one.
RECURSIVE ExpectedWalk(_)
ExpectedWalk(dir) ==
    IF ~StartsWith(dir, WorkspaceRoot) THEN <<>>
    ELSE IF dir = WorkspaceRoot \/ Dirname(dir) = dir THEN <<dir>>
    ELSE <<dir>> \o ExpectedWalk(Dirname(dir))

InLocator(r) == r.pc \in {"locStat", "ignStat", "ignRead", "ignResume"}

\* C16: every call of getAllRelevantIgnoreFiles goes strictly upwards, one
\* parent at a time, never enters a directory twice, never leaves the
\* directories whose path begins with the workspace root's, never goes
\* above the workspace root, and has returned after the directories from its start directory up to the
\* workspace root (or up to the last one below the file system's root).
C16_LocatorWalkEnds ==
    \A i \in Invocations :
        LET r == run[i]
        IN  /\ Len(r.walks) = r.dirIdx
            /\ InLocator(r) => SeqToSet(r.walks[r.dirIdx]) = r.visitedDirs
            /\ \A c \in 1..Len(r.walks) :
                  LET walk == r.walks[c]
                  IN  /\ \A m, n \in 1..Len(walk) : walk[m] = walk[n] => m = n
                      /\ \A n \in 1..Len(walk) :
                            /\ StartsWith(walk[n], WorkspaceRoot)
                            /\ n > 1 => /\ walk[n] = Dirname(walk[n - 1])
                                        /\ Len(walk[n]) < Len(walk[n - 1])
                                        /\ walk[n - 1] # WorkspaceRoot
                      /\ (c < r.dirIdx \/ ~InLocator(r))
                            => walk = ExpectedWalk(r.uniqueStartDirs[c])

\* Two calls have returned: one walked from /ws/a/sub up to the workspace
\* root, the other one stopped below the root of the file system.
C16_Witness ==
    /\ run[1].pc = "collect"
    /\ run[1].walks = << <<"/ws/a/sub", "/ws/a", "/ws">>, <<"/ws2">> >>

\* The ignore file can be stat'ed and read.
Readable(f) == f \in IgnoreFilePaths /\ disk[f].exists /\ disk[f].readable

\* The paths of the ignore files that the calls of a run have found.
FoundIgnoreFiles(r) ==
    {r.allRelevantIgnoreFiles[n].filePath : n \in 1..Len(r.allRelevantIgnoreFiles)}

\* C15: once the calls of getAllRelevantIgnoreFiles of a run have returned,
\* an ignore file that is missing or cannot be read has no entry and is not
\* cached, every readable ignore file of a start directory or of one of
\* its parents up to the workspace root has its entry, under either file
\* name, and the run has not failed.
C15_FailedIgnoreFileSkipped ==
    \A i \in Invocations :
        LET r == run[i]
        IN  (r.pc \in {"collect", "process", "done"} /\ r.uris # <<>>) =>
                /\ r.outcome # "exception"
                /\ \A f \in IgnoreFilePaths :
                      ~Readable(f) => /\ f \notin FoundIgnoreFiles(r)
                                      /\ f \notin DOMAIN ignoreFileCache
                /\ \A c \in 1..Len(r.uniqueStartDirs) :
                      \A dir \in SeqToSet(ExpectedWalk(r.uniqueStartDirs[c])) :
                          \A n \in 1..Len(IgnoreFileNames) :
                              LET f == JoinPath(dir, IgnoreFileNames[n])
                              IN  Readable(f) => /\ f \in FoundIgnoreFiles(r)
                                                 /\ f \in DOMAIN ignoreFileCache

\* From /ws/a/sub: .gitignore is missing and the read of .filecombine fails
\* there, and the .gitignore of the workspace root is found two levels up.
C15_Witness ==
    /\ run[1].pc = "collect"
    /\ run[1].uniqueStartDirs = <<"/ws/a/sub">>
    /\ disk["/ws/a/sub/.filecombine"] = Unreadable
    /\ FoundIgnoreFiles(run[1]) = {"/ws/.gitignore"}
    /\ DOMAIN ignoreFileCache = {"/ws/.gitignore"}

\* The number of entries of a list that satisfy Test.
Count(list, Test(_)) == Cardinality({n \in 1..Len(list) : Test(list[n])})

\* The global excluder matches the directory of call t.
ExcludedDirectory(t) ==
    /\ t[2] \in Directories
    /\ ~IgnoresThrows(AsRelativePath(t[2]))
    /\ shouldExcludeFile(AsRelativePath(t[2]), GlobalExcluder)

\* A hierarchical matcher ignores the directory of call t, which the global
\* excluder lets through.
IgnoredDirectory(r, t) ==
    /\ t[2] \in Directories
    /\ ~IgnoresThrows(AsRelativePath(t[2]))
    /\ ~shouldExcludeFile(AsRelativePath(t[2]), GlobalExcluder)
    /\ IgnoreWalk(r.compiledIgnores, GetWorkspaceFolder(t[2]), t[2], t[2]) # ""

\* The calls made, directly or not, by the call t for what lies below its
\* directory.
Descendants(r, t) ==
    {c \in DOMAIN r.tasks :
        c[1] = t[1] /\ c[2] # t[2] /\ IsAncestorOrSelf(t[2], c[2])}

\* C17: the call of collectFiles for a directory that the global excluder
\* matches, or that a hierarchical matcher ignores, never reads the
\* directory and makes no call for anything below it, so that nothing is
\* stat'ed, collected or recorded through it; once it has returned, the
\* directory's relative path is exactly once in summary.excludedFiles, or
\* exactly once in summary.ignoredFiles, and not in the other list.
C17_LeftOutDirectoryNotRead ==
    \A i \in Invocations :
        LET r == run[i]
        IN  r.pc \in {"collect", "process", "done"} =>
              \A t \in DOMAIN r.tasks :
                LET relativePath == AsRelativePath(t[2])
                    SamePath(e) == e = relativePath
                    OfPath(e)   == e.path = relativePath
                IN  /\ ExcludedDirectory(t) =>
                        /\ r.tasks[t] \in {"stat", "skipped", "done"}
                        /\ Descendants(r, t) = {}
                        /\ r.tasks[t] = "done" =>
                              /\ Count(r.summary.excludedFiles, SamePath) = 1
                              /\ Count(r.summary.ignoredFiles, OfPath) = 0
                    /\ IgnoredDirectory(r, t) =>
                        /\ r.tasks[t] \in {"stat", "skipped", "done"}
                        /\ Descendants(r, t) = {}
                        /\ r.tasks[t] = "done" =>
                              /\ Count(r.summary.ignoredFiles, OfPath) = 1
                              /\ Count(r.summary.excludedFiles, SamePath) = 0

\* The run over /ws/dist and /ws/dist/out has finished its traversal: the
\* excluded directory dist/out was visited from both roots, is recorded
\* once, and its file o.txt was never reached.
C17_Witness ==
    /\ run[1].pc = "done"
    /\ run[1].uris = <<"/ws/dist", "/ws/dist/out">>
    /\ run[1].tasks[<<1, "/ws/dist/out">>] = "done"
    /\ run[1].tasks[<<2, "/ws/dist/out">>] = "done"
    /\ run[1].summary.excludedFiles = <<"dist/out">>
    /\ run[1].fileUris = <<>>

\* The directory /ws/a/sub, ignored by the .gitignore of the workspace
\* root, was visited from /ws/a and not read.
C17_WitnessIgnored ==
    /\ run[1].pc = "done"
    /\ run[1].uris = <<"/ws/a">>
    /\ run[1].tasks[<<1, "/ws/a/sub">>] = "done"
    /\ run[1].summary.ignoredFiles = <<[path |-> "a/sub", reason |-> "/ws"]>>
    /\ run[1].fileUris = <<>>

\* The least integer that is not below n / 4.
CeilQuarter(n) == CHOOSE k \in 0..n : 4 * k >= n /\ 4 * k < n + 4

RECURSIVE SumTokens(_)
SumTokens(fragments) ==
    IF Len(fragments) = 0 THEN 0
    ELSE fragments[1].tokens + SumTokens(Tail(fragments))

\* C18: summary.estimatedTokens is at every moment the sum of the estimates
\* of the fragments formatted so far; at the end of a run that was not
\* cancelled there is one fragment for each collected file that could be
\* read as text, and none for any other file, and its estimate is the
\* ceiling of a quarter of the number of characters of the file: 0 for the
\* empty file and 100 for the file of 400 characters.
C18_TokenEstimate ==
    \A i \in Invocations :
        LET r == run[i]
            IsReadableText(u) == ~ReadFails(u) /\ u \notin BinaryFiles
            texts == SelectSeq(r.fileUris, IsReadableText)
        IN  /\ r.summary.estimatedTokens = SumTokens(r.combinedContent)
            /\ (r.pc = "done" /\ ~r.cancelled /\ r.outcome \in {"noText", "document"}) =>
                  /\ Len(r.combinedContent) = Len(texts)
                  /\ \A n \in 1..Len(texts) :
                        LET characterCount == Len(ContentOf(texts[n]))
                            fragment == r.combinedContent[n]
                        IN  /\ fragment.path = AsRelativePath(texts[n])
                            /\ fragment.tokens = CeilQuarter(characterCount)
                            /\ characterCount = 400 => fragment.tokens = 100
                            /\ characterCount = 0 => fragment.tokens = 0

\* The files of 0, 400 and 5 characters have been formatted: 0 + 100 + 2.
C18_Witness ==
    /\ run[1].pc = "done"
    /\ run[1].outcome = "document"
    /\ SeqToSet(run[1].fileUris) = {"/ws/t/e.txt", "/ws/t/f.txt", "/ws/a/sub/d.txt"}
    /\ Len(run[1].combinedContent) = 3
    /\ run[1].summary.estimatedTokens = 102

\* The document of the run has the '# File Structure' section.
HasTreeSection(r) ==
    \E n \in 1..Len(r.output) : r.output[n].heading = "# File Structure"

\* C20: an emitted document has the '# File Structure' section only when
\* more than one file was processed into it; the document of exactly one
\* file has no such section, whether showFileStructure is set or not, and
\* ends with the '# Combined Files' section.
C20_TreeSectionNeedsTwoFiles ==
    \A i \in Invocations :
        LET r == run[i]
        IN  (r.pc = "done" /\ r.outcome = "document") =>
                /\ HasTreeSection(r) => Len(r.processedPaths) > 1
                /\ Len(r.processedPaths) = 1 =>
                      /\ r.treeView = ""
                      /\ ~HasTreeSection(r)
                      /\ r.output[Len(r.output)].heading = "# Combined Files"

\* A document of one file, emitted while showFileStructure was set.
C20_Witness ==
    /\ run[1].pc = "done"
    /\ run[1].outcome = "document"
    /\ run[1].processedPaths = <<"a/sub/d.txt">>
    /\ run[1].config.showFileStructure
    /\ ~HasTreeSection(run[1])

\* A document of two files with its tree, and the same without it when
\* showFileStructure is not set.
C20_WitnessTree ==
    /\ run[1].pc = "done"
    /\ run[1].outcome = "document"
    /\ Len(run[1].processedPaths) = 2
    /\ HasTreeSection(run[1]) <=> run[1].config.showFileStructure

\* The lines of a rendered tree.
TreeLines(treeView) ==
    LET NotEmpty(line) == line # "" IN SelectSeq(Split(treeView, "\n"), NotEmpty)

\* The number of indentation units before the connector of a line.
RECURSIVE LineDepth(_)
LineDepth(line) ==
    IF Len(line) >= 4 /\ SubSeq(line, 1, 4) \in {Bar, Blank}
    THEN 1 + LineDepth(SubSeq(line, 5, Len(line)))
    ELSE 0

LineConnector(line) == SubSeq(line, 4 * LineDepth(line) + 1, 4 * LineDepth(line) + 4)

LineName(line) == SubSeq(line, 4 * LineDepth(line) + 5, Len(line))

\* The chain of names under which line n is nested, its own name last: the
\* name of a line at depth d + 1 hangs under the nearest line of depth d
\* above it.
RECURSIVE LinePath(_, _)
LinePath(lines, n) ==
    LET above == {m \in 1..(n - 1) : LineDepth(lines[m]) = LineDepth(lines[n]) - 1}
    IN  IF LineDepth(lines[n]) = 0 THEN <<LineName(lines[n])>>
        ELSE IF above = {} THEN <<"", LineName(lines[n])>>
        ELSE Append(LinePath(lines, SetMax(above)), LineName(lines[n]))

\* The rendering of the tree of paths shows the files of paths as the claim
\* describes: every file under the chain of the directories of its path and
\* no line for anything else; at every level the directories before the
\* files and the names of one kind in ascending order; the corner
\* connector for the last sibling of a level and the tee connector for
\* the others.
WellRendered(paths, treeView) ==
    LET lines    == TreeLines(treeView)
        Files    == {Split(paths[n], "/") : n \in 1..Len(paths)}
        Dirs     == UNION {{SubSeq(f, 1, k) : k \in 1..(Len(f) - 1)} : f \in Files}
        Path(n)  == LinePath(lines, n)
        Level(n) == SubSeq(Path(n), 1, Len(Path(n)) - 1)
        IsDir(n) == Path(n) \in Dirs
    IN  /\ \A f \in Files : \E n \in 1..Len(lines) : Path(n) = f
        /\ \A n \in 1..Len(lines) : Path(n) \in Files \cup Dirs
        /\ \A m, n \in 1..Len(lines) :
              (m < n /\ Level(m) = Level(n)) =>
                  /\ IsDir(m) \/ ~IsDir(n)
                  /\ IsDir(m) = IsDir(n) => LocaleLess(LineName(lines[m]), LineName(lines[n]))
        /\ \A n \in 1..Len(lines) :
              LineConnector(lines[n]) =
                  IF \E m \in (n + 1)..Len(lines) : Level(m) = Level(n) THEN Tee ELSE Corner

\* C19 as claimed: for every list of paths, createTreeStructure and
\* generateTreeView end without an exception and the rendered tree lists, at
\* every level, the directories before the files and the nodes of one kind
\* in ascending name order, nests each file under the chain of the
\* directories of its path, and uses the corner connector for the last
\* sibling of each level and the tee connector for the others.
C19_TreeRendered ==
    run[1].pc = "done" =>
        /\ run[1].outcome = "document"
        /\ WellRendered(run[1].processedPaths, run[1].treeView)

\* No directory or file of the path is named root or like a property that
\* every object inherits.
PlainNames(paths) ==
    \A n \in 1..Len(paths) :
        \A part \in SeqToSet(Split(paths[n], "/")) : part \notin InheritedKeys \cup {"root"}

\* The rendering is the claimed one for the lists of paths with plain names.
TreeRenderedForPlainNames ==
    (run[1].pc = "done" /\ PlainNames(run[1].processedPaths)) =>
        /\ run[1].outcome = "document"
        /\ WellRendered(run[1].processedPaths, run[1].treeView)

\* The directory named root has no line of its own in the rendered tree.
TreeRenderedWithRoot ==
    /\ run[1].pc = "done"
    /\ run[1].processedPaths = <<"root/r.txt", "b.txt">>
    /\ run[1].treeView = Corner \o "r.txt\n" \o Corner \o "b.txt\n"

\* The place of a section in the fixed order, by its heading.
SectionRank(section) ==
    IF section.heading = "# Processing Summary" THEN 1
    ELSE IF section.heading = "# Instructions for LLM" THEN 2
    ELSE IF StartsWith(section.heading, "Files ignored by rules in ./") THEN 3
    ELSE IF section.heading = "Files excluded by global settings:" THEN 4
    ELSE IF section.heading = "Binary files skipped:" THEN 5
    ELSE IF section.heading = "Timings:" THEN 6
    ELSE IF section.heading = "# File Structure" THEN 7
    ELSE IF section.heading = "# Combined Files" THEN 8
    ELSE 0

\* C21: in every emitted document the sections follow each other in the
\* order summary, instructions, listings (ignore rules, global settings,
\* binary files), timings, tree, combined files; each of them but the
\* listing of an ignore file's directory occurs at most once; a section is
\* there only if its setting enables it; the combined files are always
\* there, last, with every fragment.
C21_SectionOrder ==
    \A i \in Invocations :
        LET r      == run[i]
            out    == r.output
            Has(k) == \E n \in 1..Len(out) : SectionRank(out[n]) = k
        IN  (r.pc = "done" /\ r.outcome = "document") =>
                /\ Len(out) > 0
                /\ \A n \in 1..Len(out) : SectionRank(out[n]) \in 1..8
                /\ \A m, n \in 1..Len(out) :
                      m < n => /\ SectionRank(out[m]) <= SectionRank(out[n])
                               /\ SectionRank(out[m]) = SectionRank(out[n])
                                      => SectionRank(out[m]) = 3
                /\ Has(1) => r.config.showProcessingSummary
                /\ Has(2) => r.config.llmInstructions # ""
                /\ (Has(3) \/ Has(4) \/ Has(5)) => r.config.showIgnoredFiles
                /\ Has(6) => r.config.showTimings
                /\ Has(7) => r.config.showFileStructure
                /\ SectionRank(out[Len(out)]) = 8
                /\ out[Len(out)].body = r.combinedContent

\* A document with every kind of section.
C21_Witness ==
    /\ run[1].pc = "done"
    /\ run[1].outcome = "document"
    /\ [n \in 1..Len(run[1].output) |-> SectionRank(run[1].output[n])]
           = <<1, 2, 3, 4, 5, 6, 7, 8>>

\* C22: in an emitted document that shows the listings, every record of
\* summary.ignoredFiles is printed once, under one heading; two records are
\* under the same heading exactly when they have the same reason directory;
\* there are as many headings as reason directories, all different.
C22_IgnoredGroupedByDirectory ==
    \A i \in Invocations :
        LET r        == run[i]
            out      == r.output
            ignored  == r.summary.ignoredFiles
            Groups   == {n \in 1..Len(out) : SectionRank(out[n]) = 3}
            Under(e) == {n \in Groups : \E k \in 1..Len(out[n].body) : out[n].body[k] = e.path}
        IN  (r.pc = "done" /\ r.outcome = "document" /\ r.config.showIgnoredFiles) =>
                /\ \A k \in 1..Len(ignored) : Cardinality(Under(ignored[k])) = 1
                /\ \A k, l \in 1..Len(ignored) :
                      (ignored[k].reason = ignored[l].reason)
                          <=> (Under(ignored[k]) = Under(ignored[l]))
                /\ \A n \in Groups :
                      /\ Len(out[n].body) =
                            Cardinality({k \in 1..Len(ignored) : Under(ignored[k]) = {n}})
                      /\ Len(out[n].body) > 0
                /\ Cardinality(Groups) =
                      Cardinality({ignored[k].reason : k \in 1..Len(ignored)})
                /\ \A m, n \in Groups : out[m].heading = out[n].heading => m = n

\* A document that lists e.txt under the heading of the workspace root and
\* d.txt under the heading of a/sub.
C22_Witness ==
    /\ run[1].pc = "done"
    /\ run[1].outcome = "document"
    /\ run[1].config.showIgnoredFiles
    /\ \E m, n \in 1..Len(run[1].output) :
          /\ run[1].output[m].heading = "Files ignored by rules in .//ws:"
          /\ run[1].output[m].body = <<"t/e.txt">>
          /\ run[1].output[n].heading = "Files ignored by rules in ./a/sub:"
          /\ run[1].output[n].body = <<"a/sub/d.txt">>

\* The line has no character but white space.
BlankLine(line) == \A k \in 1..Len(line) : CharAt(line, k) \in {" ", "\t", "\r"}

\* The first character of the line that is not white space, "" if none.
FirstNonWhite(line) ==
    LET at == {k \in 1..Len(line) : CharAt(line, k) \notin {" ", "\t", "\r"}}
    IN  IF at = {} THEN "" ELSE CharAt(line, SetMin(at))

\* The patterns parsed from the content that was read.
ParsedPatterns(r) == r.relevantIgnoreFiles[1].patterns

\* C23 as claimed: the patterns are the lines of the content, in their
\* order, but the blank lines and the lines whose first character that is
\* not white space is '#'.
C23_CommentsAfterWhiteSpaceDropped ==
    LET Kept(line) == ~BlankLine(line) /\ FirstNonWhite(line) # "#"
    IN  run[1].pc = "done" =>
            ParsedPatterns(run[1]) = SelectSeq(Split(run[1].readBuf, "\n"), Kept)

\* C23: the patterns are the lines of the content, in their order, but the
\* blank lines and the lines whose first character is '#'; a line with
\* white space before its '#' is kept as a pattern.
C23_BlankAndCommentLinesDropped ==
    LET Kept(line) == ~BlankLine(line) /\ (Len(line) = 0 \/ CharAt(line, 1) # "#")
        lines == Split(run[1].readBuf, "\n")
    IN  run[1].pc = "done" =>
            /\ ParsedPatterns(run[1]) = SelectSeq(lines, Kept)
            /\ \A n \in 1..Len(lines) :
                  (~BlankLine(lines[n]) /\ FirstNonWhite(lines[n]) = "#"
                      /\ CharAt(lines[n], 1) # "#")
                      => lines[n] \in SeqToSet(ParsedPatterns(run[1]))

\* A comment, then an indented comment, which is kept.
C23_Witness ==
    /\ run[1].pc = "done"
    /\ run[1].readBuf = "# build output\n  # indented"
    /\ ParsedPatterns(run[1]) = <<"  # indented">>

\* C24: in every step of a run whose cancellation has been requested, the
\* collectFiles calls that start return at once (they never get to their
\* stat) and start without a change of fileUris or of the summary, a call
\* that returned at its entry check stays returned, and the processing loop
\* starts no processFile call.
C24_CancelledStartsNothing ==
    [][\A i \in Invocations :
          run[i].cancelled =>
              LET started == DOMAIN run'[i].tasks \ DOMAIN run[i].tasks
              IN  /\ \A t \in started : run'[i].tasks[t] = "skipped"
                  /\ started # {} => /\ run'[i].fileUris = run[i].fileUris
                                     /\ run'[i].summary = run[i].summary
                  /\ \A t \in DOMAIN run[i].tasks :
                        run[i].tasks[t] = "skipped" => run'[i].tasks[t] = "skipped"
                  /\ run'[i].pc = "process" =>
                        run[i].pc = "process" /\ run'[i].idx = run[i].idx]_vars

\* A run cancelled while /ws/a was being read: the calls for its children
\* returned at their entry check and nothing was collected.
C24_Witness ==
    /\ run[1].pc = "done"
    /\ run[1].outcome = "cancelled"
    /\ run[1].uris = <<"/ws/a">>
    /\ run[1].tasks[<<1, "/ws/a/sub">>] = "skipped"
    /\ run[1].fileUris = <<>>

\* The run has started its collectFiles calls.
Collecting(r) == r.pc \in {"collect", "process"} \/ (r.pc = "done" /\ r.uris # <<>>)

\* C25: when the first collectFiles call of a run starts, the locator has
\* returned for every start directory and compiledIgnores holds the
\* patterns of every entry found; from then on no step of the run changes
\* the entries, compiledIgnores or the ignore-file cache.
C25_MatchersBuiltThenFrozen ==
    /\ [](\A i \in Invocations :
             Collecting(run[i]) =>
                 /\ run[i].dirIdx = Len(run[i].uniqueStartDirs)
                 /\ Len(run[i].walks) = Len(run[i].uniqueStartDirs)
                 /\ run[i].compiledIgnores = Compile(run[i].allRelevantIgnoreFiles))
    /\ [][\A i \in Invocations :
             (Collecting(run[i]) /\ run'[i] # run[i]) =>
                 /\ run'[i].compiledIgnores = run[i].compiledIgnores
                 /\ run'[i].allRelevantIgnoreFiles = run[i].allRelevantIgnoreFiles
                 /\ ignoreFileCache' = ignoreFileCache]_vars

\* A run over two start directories has collected a file under matchers
\* compiled from two ignore files.
C25_Witness ==
    /\ run[1].pc = "done"
    /\ Len(run[1].uniqueStartDirs) = 2
    /\ DOMAIN run[1].compiledIgnores = {"/ws", "/ws/a/sub"}
    /\ DOMAIN ignoreFileCache = {"/ws/.gitignore", "/ws/a/sub/.filecombine"}
    /\ run[1].fileUris # <<>>

\* C26: a collectFiles call has returned only when every call below it has
\* returned; while files are processed, and afterwards, every collectFiles
\* call of the run has returned and summary.totalFiles is the length of
\* the collected list, which no longer changes.
C26_FanInBeforeProcessing ==
    /\ [](\A i \in Invocations :
             LET r == run[i]
             IN  /\ \A t \in DOMAIN r.tasks :
                       r.tasks[t] = "done" =>
                           \A c \in Descendants(r, t) : r.tasks[c] \in Returned
                 /\ (r.pc = "process" \/ (r.pc = "done" /\ r.uris # <<>>)) =>
                       /\ \A t \in DOMAIN r.tasks : r.tasks[t] \in Returned
                       /\ r.summary.totalFiles = Len(r.fileUris))
    /\ [][\A i \in Invocations :
             run[i].pc = "process" => run'[i].fileUris = run[i].fileUris]_vars

\* The second of two collected files is being read, after a traversal of
\* /ws/a down to its file.
C26_Witness ==
    /\ run[1].pc = "process"
    /\ run[1].idx = 2
    /\ run[1].summary.totalFiles = 2
    /\ <<1, "/ws/a/sub">> \in DOMAIN run[1].tasks
    /\ run[1].tasks[<<1, "/ws/a/sub">>] = "done"

\* The sum of the sizes of the files of a list that can be read as text.
RECURSIVE TextSize(_)
TextSize(fileUris) ==
    IF Len(fileUris) = 0 THEN 0
    ELSE (IF ReadFails(fileUris[1]) \/ fileUris[1] \in BinaryFiles THEN 0
          ELSE Len(ContentOf(fileUris[1])))
         + TextSize(Tail(fileUris))

\* C27: at the end of a run that was not cancelled the processed files, the
\* binary files and the collected files whose read failed add up to
\* summary.totalFiles, summary.totalSize is the sum of the sizes of the
\* processed text files only, and an emitted document holds as many content
\* fragments as summary.processedFiles.
C27_CountersAddUp ==
    \A i \in Invocations :
        LET r == run[i]
        IN  (r.pc = "done" /\ ~r.cancelled /\ r.outcome \in {"noText", "document"}) =>
                /\ r.summary.processedFiles + Len(r.summary.binaryFiles)
                      + Count(r.fileUris, ReadFails) = r.summary.totalFiles
                /\ r.summary.totalSize = TextSize(r.fileUris)
                /\ r.outcome = "document" =>
                      /\ r.output # <<>>
                      /\ r.output[Len(r.output)].kind = "files"
                      /\ Len(r.output[Len(r.output)].body) = r.summary.processedFiles

\* A text file of 400 bytes, a binary file and a file whose read fails
\* were collected.
C27_Witness ==
    /\ run[1].pc = "done"
    /\ run[1].outcome = "document"
    /\ run[1].summary.totalFiles = 3
    /\ run[1].summary.processedFiles = 1
    /\ Len(run[1].summary.binaryFiles) = 1
    /\ run[1].readFailed = {"/ws/c.txt"}
    /\ run[1].summary.totalSize = 400

\* The stat of entry p answers and p passes the global and the
\* hierarchical check of run r.
PassesChecks(r, p) ==
    LET currentDir == IF StatType(p, disk) = "Directory" THEN p ELSE Dirname(p)
    IN  /\ StatType(p, disk) # "Throws"
        /\ ~IgnoresThrows(AsRelativePath(p))
        /\ ~shouldExcludeFile(AsRelativePath(p), GlobalExcluder)
        /\ IgnoreWalk(r.compiledIgnores, GetWorkspaceFolder(p), p, currentDir) = ""

\* The entry p is in none of the lists of run r.
Unrecorded(r, p) ==
    /\ p \notin SeqToSet(r.fileUris)
    /\ AsRelativePath(p) \notin SeqToSet(r.summary.excludedFiles)
    /\ \A n \in 1..Len(r.summary.ignoredFiles) :
          r.summary.ignoredFiles[n].path # AsRelativePath(p)

\* C28: a visited entry that passes both checks and is a symbolic link, or
\* whose stat or directory read throws, is not collected, not descended
\* into and not recorded in any list, while the other entries of its
\* directory are still visited and its sibling files are collected.
C28_OtherTypesAndErrorsDropped ==
    \A i \in Invocations :
        LET r == run[i]
        IN  \A t \in DOMAIN r.tasks :
               /\ (t[2] \in FileLinks \cup DirectoryLinks /\ PassesChecks(r, t[2])) =>
                     /\ r.tasks[t] \in {"stat", "skipped", "done"}
                     /\ Children(r, t) = {}
                     /\ Unrecorded(r, t[2])
               /\ (\/ t[2] \in VanishingEntries
                   \/ t[2] \in UnlistableDirectories /\ PassesChecks(r, t[2])) =>
                     /\ Children(r, t) = {}
                     /\ Unrecorded(r, t[2])
               /\ (/\ r.pc \in {"process", "done"}
                   /\ ~r.cancelled
                   /\ StatType(t[2], disk) = "Directory"
                   /\ t[2] \notin UnlistableDirectories
                   /\ PassesChecks(r, t[2])) =>
                     \A q \in ReadDirectory(t[2], disk) :
                        /\ <<t[1], q>> \in DOMAIN r.tasks
                        /\ r.tasks[<<t[1], q>>] = "done"
                        /\ (StatType(q, disk) = "File" /\ PassesChecks(r, q)) =>
                              q \in SeqToSet(r.fileUris)

\* The directory /ws/l was traversed: its links, its vanished entry and its
\* unreadable directory were visited and only its text file was collected.
C28_Witness ==
    /\ run[1].pc = "done"
    /\ run[1].outcome = "document"
    /\ run[1].uris = <<"/ws/l">>
    /\ run[1].fileUris = <<"/ws/l/g.txt">>
    /\ \A q \in {"/ws/l/link", "/ws/l/dlink", "/ws/l/gone", "/ws/l/locked"} :
          /\ <<1, q>> \in DOMAIN run[1].tasks
          /\ run[1].tasks[<<1, q>>] = "done"
          /\ q \in VanishingEntries \/ PassesChecks(run[1], q)
    /\ run[1].summary.excludedFiles = <<>>
    /\ run[1].summary.ignoredFiles = <<>>

\* C29: a directory is searched for ignore files by the locator, and has
\* its matcher applied by the collector, only when it is the workspace
\* root or a descendant of it.
C29_OnlyWorkspaceDirectoriesSearched ==
    \A i \in Invocations :
        LET r == run[i]
        IN  /\ \A c \in 1..Len(r.walks) :
                  \A n \in 1..Len(r.walks[c]) :
                     IsAncestorOrSelf(WorkspaceRoot, r.walks[c][n])
            /\ \A n \in 1..Len(r.summary.ignoredFiles) :
                  IsAncestorOrSelf(WorkspaceRoot, r.summary.ignoredFiles[n].reason)

\* The panels that are not disposed.
LivePanels == {p \in 1..Len(webviewPanels) : ~webviewPanels[p].disposed}

\* What a step may do to the panels: a panel is created only by a
\* createOrShow that finds currentPanel undefined; a createOrShow creates a
\* panel if currentPanel is undefined and keeps and reveals the current one
\* otherwise, and the current panel then shows the content of the call;
\* what a panel shows changes in no other way; a disposal leaves
\* currentPanel undefined and is never undone.
ByTheCalls ==
    /\ Len(webviewPanels') # Len(webviewPanels) =>
          /\ currentPanel = 0
          /\ \E content \in PanelContents : createOrShow(content)
    /\ \A content \in PanelContents :
          createOrShow(content) =>
             /\ IF currentPanel = 0
                THEN /\ Len(webviewPanels') = Len(webviewPanels) + 1
                     /\ currentPanel' = Len(webviewPanels')
                ELSE /\ Len(webviewPanels') = Len(webviewPanels)
                     /\ currentPanel' = currentPanel
             /\ ~webviewPanels'[currentPanel'].disposed
             /\ webviewPanels'[currentPanel'].visible
             /\ TextContent(webviewPanels'[currentPanel'].html) = content
    /\ \A p \in 1..Len(webviewPanels) :
          /\ webviewPanels'[p].html # webviewPanels[p].html =>
                /\ p = currentPanel
                /\ \E shown \in PanelContents : createOrShow(shown)
          /\ (~webviewPanels[p].disposed /\ webviewPanels'[p].disposed) =>
                currentPanel' = 0
          /\ webviewPanels[p].disposed => webviewPanels'[p].disposed

\* C30: at most one panel is live, and it is currentPanel; a panel is
\* created only when currentPanel is undefined, any other createOrShow
\* reveals and updates the existing panel; the panel shows the content of
\* the most recent createOrShow; after dispose currentPanel is undefined
\* and the next createOrShow creates a fresh panel.
C30_OnePanel ==
    /\ [](/\ Cardinality(LivePanels) <= 1
          /\ LivePanels = IF currentPanel = 0 THEN {} ELSE {currentPanel})
    /\ [][ByTheCalls]_vars

\* The first panel was closed and the call that followed created the
\* second one, which was sent to the background and revealed by a further
\* call, whose content it shows.
C30_Witness ==
    /\ Len(webviewPanels) = 2
    /\ webviewPanels[1].disposed
    /\ TextContent(webviewPanels[1].html) = "a b"
    /\ currentPanel = 2
    /\ webviewPanels[2].visible
    /\ TextContent(webviewPanels[2].html) = "%41"
    /\ webviewPanels[2].html.encodedContent = "%2541"

====
